---- MODULE Spec2Model ----
(***************************************************************************)
(* Verification model of the lynki-frontend mastery / assessment code.     *)
(*                                                                         *)
(* Several parts share one module:                                         *)
(*   - the legacy study service (studyService.ts, unnamed/part_011):       *)
(*     recordQuestionAttempt, startStudySession against the Supabase       *)
(*     tables user_question_attempts and user_concept_mastery;             *)
(*   - the TestPage client (TestPage.tsx, testService.ts) talking to the   *)
(*     /api/v1/test endpoints, whose server side is not in the sources and *)
(*     is modelled from the specification;                                 *)
(*   - the mastery engine behind /api/v1/bkt (BKT update, session          *)
(*     scheduler) and the pass-chance aggregator, modelled from the        *)
(*     specification, with the StudySession component (unnamed/part_015)   *)
(*     and the dashboard's fetchCoursePassChance (unnamed/part_004);       *)
(*   - submitQuizAttempt (quizService.ts), getNextConceptToStudy           *)
(*     (unnamed/part_011), and two migrations taken row by row: the        *)
(*     option shuffle and the deduplication of bkt_mastery.                *)
(* Every await of the TypeScript code is one atomic step, so that the      *)
(* interleavings of concurrent calls are the ones the event loop and the   *)
(* database allow.                                                         *)
(***************************************************************************)
EXTENDS Integers, Sequences, FiniteSets, TLC

\* ------------------------------------------------------------------------
\* Bounds of the model
\* ------------------------------------------------------------------------
NProcs == 2          \* concurrent recordQuestionAttempt callers
MaxCalls == 4        \* recordQuestionAttempt calls started in one behaviour
MaxRecordCalls == 3  \* calls started when two users and bad inputs are mixed
MaxNow == 36         \* the clock stops advancing here (hours)
TickHours == 12      \* one clock step (hours)
BigPool == 11        \* questions of concept "c1"
SmallPool == 2       \* questions of concept "c2"
RngSeeds == 4        \* distinct states of the Math.random generator
MaxSessions == 1     \* test sessions created in one behaviour
NumTestQuestions == 2 \* questions (one per concept) the test API can pick
MaxMounts == 2       \* times the TestPage is mounted (opened or reloaded)
MaxTestNow == 1      \* the server clock of the test API stops here
MaxInFlight == 3     \* requests and responses in flight at once
MaxAnswers == 3      \* answers the page submits in one behaviour
MaxStudyCalls == 2   \* recordQuestionAttempt calls between study sessions
MaxReviews == 2      \* completeReview calls per mastery row
MaxShuffles == 2     \* shuffle_question_options calls in one behaviour
MaxReviewChain == 7  \* completeReview calls on one row, reviewed alone
NumKCs == 11         \* knowledge components of the course
TwoQuestionKCs == 1  \* KCs whose question pool holds two questions
PractisedKCs == 3    \* KCs whose questions are answered
MaxEngineAnswers == 4 \* total_attempts of the course, summed over its KCs
MaxPassKCs == 3      \* attempted KCs the pass chance is computed over
MaxStudyInFlight == 2 \* submitAnswer calls of StudySession awaiting their result
MaxOptions == 3      \* options of a question before the shuffle
MaxQuizSubmissions == 2 \* calls of submitQuizAttempt
MaxQuizAnswers == 2  \* answers of one quiz submission
MaxMasteryRows == 3  \* rows of bkt_mastery before the deduplicating migration

\* ------------------------------------------------------------------------
\* Program constants
\* ------------------------------------------------------------------------
CORRECT_TO_MASTER == 3
MAX_QUESTIONS_PER_SESSION == 10
REVIEW_INTERVALS == <<1, 3, 7, 14, 30, 60>>
DAY_HOURS == 24
DEFAULT_REVIEW_INTERVAL == 1
NoTime == 0 - 1

Procs == 1 .. NProcs
Users == {"u1", "u2"}
Concepts == {"c1", "c2", "c3"}

\* questions table: ids 1..BigPool belong to c1, the next SmallPool to c2,
\* c3 has no question.  Question 0 is an id that is not in the table.
Questions == 1 .. (BigPool + SmallPool)
ConceptOf(q) == IF q <= BigPool THEN "c1" ELSE "c2"
QuestionsOfConcept(c) == {q \in Questions : ConceptOf(q) = c}
\* questions_backup_20260131: correct_answer as the backup step of the
\* shuffle migration saved it
BackupCorrectAnswer(q) == q % 2
\* the option_index values of a question, and the first index past them
OptionRange == 0 .. 1
BadOption == Cardinality(OptionRange)
\* a question id that is not in the questions table
UnknownQuestion == CHOOSE q \in 0 .. (BigPool + SmallPool) : q \notin Questions

VARIABLES
  now,           \* Date.now(), in hours
  attempts,      \* table user_question_attempts, in insertion order
  mastery,       \* table user_concept_mastery, a set of rows
  pc,            \* per caller: position inside recordQuestionAttempt
  call,          \* per caller: the arguments of the running call
  pending,       \* per caller: existingMastery and the values computed from it
  ret,           \* per caller: what the last call returned / how its write ended
  calls,         \* number of calls started
  finished,      \* history: completed calls per (user, concept)
  studySession   \* the last value returned by startStudySession

legacyVars == <<now, attempts, mastery, pc, call, pending, ret, calls, finished, studySession>>

VARIABLES
  autoComplete,  \* server build: a session completes itself with its last answer
  tnow,          \* server clock of the test API
  tsessions,     \* table test_sessions, by session id
  tfixed,        \* history: the question list given to a session at creation
  tattempts,     \* the Attempt log of the test API
  bkt,           \* mastery counters per knowledge component
  net,           \* requests and responses in flight
  lastResp,      \* the response to the last answer request the server handled
  cl             \* the browser: URL, react-query state, TestPage state

testVars == <<autoComplete, tnow, tsessions, tfixed, tattempts, bkt, net, lastResp, cl>>

VARIABLES
  correct_answer, \* questions.correct_answer: the index of the is_correct option
  review,         \* the completeReview call in progress, between its awaits
  shuffle_log     \* table shuffle_migration_log, in insertion order

VARIABLES
  records,        \* MasteryRecord per knowledge component, absent until the first attempt
  eattempts,      \* Attempt rows of the last 24h, as the question ids they name
  feedback,       \* the feedback of the last submit_answer
  study,          \* StudySession component: session, sessionComplete
  passInput,      \* PassChanceAggregator: p_eff per attempted KC, target grade
  passResp,       \* GET /bkt/pass-chance: the response in flight
  passChance      \* the value fetchCoursePassChance resolved to

engineVars == <<records, eattempts, feedback, study, passInput, passResp, passChance>>

extraVars == <<correct_answer, review, shuffle_log, engineVars>>

VARIABLES
  bkt_mastery     \* table bkt_mastery as the deduplicating migration finds it

VARIABLES
  quizCall,           \* the submitQuizAttempt call in progress, between its awaits
  bkt_batches,        \* the POSTs to /bkt/update-batch, by the submission that sent them
  user_quiz_attempts  \* table user_quiz_attempts, in insertion order

quizVars == <<quizCall, bkt_batches, user_quiz_attempts>>

VARIABLES
  question_options    \* table question_options, the rows of each question

VARIABLES
  nextConcept         \* the last call of getNextConceptToStudy and what it returned

dbVars == <<bkt_mastery, quizVars, question_options, nextConcept>>

vars == <<legacyVars, testVars, extraVars, dbVars>>

\* question_options: the option marked is_correct, by option_index
CorrectAnswer(q) == correct_answer[q]

\* ------------------------------------------------------------------------
\* Tables
\* ------------------------------------------------------------------------
Keys == Users \X Concepts

\* rows of user_concept_mastery with the given key (UNIQUE(user_id, concept_id))
MasteryRows(u, c) == {r \in mastery : r.user_id = u /\ r.concept_id = c}

\* .select("*").eq(user_id).eq(concept_id).single(): the row, or null (here {})
\* when there is not exactly one
SelectSingle(u, c) == IF Cardinality(MasteryRows(u, c)) = 1 THEN MasteryRows(u, c) ELSE {}

\* INSERT INTO user_concept_mastery: rejected by UNIQUE(user_id, concept_id)
UniqueViolation(u, c) == MasteryRows(u, c) # {}

\* INSERT INTO user_question_attempts: question_id REFERENCES questions(id)
AttemptForeignKeyOk(q) == q \in Questions

\* the sessionId argument: the study session the user has open
SessionOf(u) == u

AttemptRow(u, a, sid) ==
  [user_id |-> u, question_id |-> a.questionId, concept_id |-> a.conceptId,
   selected_option |-> a.selectedOption, is_correct |-> a.isCorrect,
   session_id |-> sid, created_at |-> now]

NoCall == [user |-> "u1", questionId |-> 0, conceptId |-> "c1",
           selectedOption |-> 0, isCorrect |-> FALSE]

NoPending == [existing |-> {}, status |-> "not_started", correct_count |-> 0,
              attempt_count |-> 0, current_streak |-> 0, mastered_at |-> NoTime,
              next_review_at |-> NoTime, review_interval_days |-> 0]

NoRet == [write |-> "none", newStreak |-> 0, newCorrectCount |-> 0,
          isMastered |-> FALSE, newStatus |-> "not_started"]

NoSession == [ok |-> FALSE, conceptId |-> "c1", questions |-> <<>>,
              masteryThreshold |-> 0]

\* ------------------------------------------------------------------------
\* recordQuestionAttempt
\* ------------------------------------------------------------------------
\* existingMastery?.field || dflt for a number: null and 0 give dflt
NumOr(rows, field, dflt) ==
  IF rows = {} THEN dflt
  ELSE LET r == CHOOSE x \in rows : TRUE
       IN IF r[field] = 0 THEN dflt ELSE r[field]

\* existingMastery?.field || null for a timestamp: a set timestamp is truthy
TimeOrNull(rows, field) ==
  IF rows = {} THEN NoTime ELSE (CHOOSE x \in rows : TRUE)[field]

\* the values recordQuestionAttempt computes between its select and its write
ComputeUpdate(existing, isCorrect) ==
  LET newStreak == IF isCorrect THEN NumOr(existing, "current_streak", 0) + 1 ELSE 0
      newCorrectCount == NumOr(existing, "correct_count", 0) + (IF isCorrect THEN 1 ELSE 0)
      newAttemptCount == NumOr(existing, "attempt_count", 0) + 1
      masteredAt0 == TimeOrNull(existing, "mastered_at")
      nextReviewAt0 == TimeOrNull(existing, "next_review_at")
      reviewIntervalDays == NumOr(existing, "review_interval_days", DEFAULT_REVIEW_INTERVAL)
      nowMastered == newCorrectCount >= CORRECT_TO_MASTER
      first == nowMastered /\ masteredAt0 = NoTime
  IN [existing |-> existing,
      status |-> IF nowMastered THEN "mastered" ELSE "in_progress",
      correct_count |-> newCorrectCount,
      attempt_count |-> newAttemptCount,
      current_streak |-> newStreak,
      mastered_at |-> IF first THEN now ELSE masteredAt0,
      next_review_at |-> IF first THEN now + reviewIntervalDays * DAY_HOURS ELSE nextReviewAt0,
      review_interval_days |-> reviewIntervalDays]

\* the columns an update / insert of recordQuestionAttempt writes
WrittenColumns(p) ==
  [status |-> p.status, correct_count |-> p.correct_count,
   attempt_count |-> p.attempt_count, current_streak |-> p.current_streak,
   mastered_at |-> p.mastered_at, next_review_at |-> p.next_review_at,
   review_interval_days |-> p.review_interval_days]

NewMasteryRow(u, c, p) ==
  [id |-> Cardinality(mastery) + 1, user_id |-> u, concept_id |-> c,
   review_count |-> 0] @@ WrittenColumns(p)

\* first await: insert the attempt row
recordQuestionAttempt(p, u, a) ==
  /\ pc[p] = "idle"
  /\ calls < MaxCalls
  /\ calls' = calls + 1
  /\ call' = [call EXCEPT ![p] = [user |-> u] @@ a]
  /\ attempts' = IF AttemptForeignKeyOk(a.questionId)
                 THEN Append(attempts, AttemptRow(u, a, SessionOf(u)))
                 ELSE attempts
  /\ pc' = [pc EXCEPT ![p] = "select"]
  /\ UNCHANGED <<now, mastery, pending, ret, finished, studySession, testVars, extraVars, dbVars>>

\* second await: read existingMastery, then compute the new values
recordSelectMastery(p) ==
  /\ pc[p] = "select"
  /\ pending' = [pending EXCEPT ![p] =
                   ComputeUpdate(SelectSingle(call[p].user, call[p].conceptId),
                                 call[p].isCorrect)]
  /\ pc' = [pc EXCEPT ![p] = "upsert"]
  /\ UNCHANGED <<now, attempts, mastery, call, ret, calls, finished, studySession, testVars, extraVars, dbVars>>

\* an update that lost its .eq("id", ...) filter: every row is written
UpdateEveryRow(rows, id, cols) ==
  {[k \in DOMAIN r |-> IF k \in DOMAIN cols THEN cols[k] ELSE r[k]] : r \in rows}

\* the update branch: .update({...}).eq("id", existingMastery.id)
UpdateById(rows, id, cols) ==
  {IF r.id = id THEN [k \in DOMAIN r |-> IF k \in DOMAIN cols THEN cols[k] ELSE r[k]] ELSE r
     : r \in rows}

\* third await: update the row read before, or insert a new one
recordUpsertMastery(p) ==
  LET u == call[p].user
      c == call[p].conceptId
      pd == pending[p]
      existingRow == CHOOSE x \in pd.existing : TRUE
      rejected == pd.existing = {} /\ UniqueViolation(u, c)
  IN /\ pc[p] = "upsert"
     /\ mastery' = IF pd.existing # {}
                   THEN UpdateById(mastery, existingRow.id, WrittenColumns(pd))
                   ELSE IF rejected THEN mastery
                   ELSE mastery \cup {NewMasteryRow(u, c, pd)}
     /\ ret' = [ret EXCEPT ![p] =
                  [write |-> IF pd.existing # {} THEN "updated"
                             ELSE IF rejected THEN "unique_violation" ELSE "inserted",
                   newStreak |-> pd.current_streak,
                   newCorrectCount |-> pd.correct_count,
                   isMastered |-> pd.status = "mastered",
                   newStatus |-> pd.status]]
     /\ finished' = [finished EXCEPT ![<<u, c>>] = @ + 1]
     /\ pc' = [pc EXCEPT ![p] = "idle"]
     /\ call' = [call EXCEPT ![p] = NoCall]
     /\ pending' = [pending EXCEPT ![p] = NoPending]
     /\ UNCHANGED <<now, attempts, calls, studySession, testVars, extraVars, dbVars>>

\* Date.now() advances
Tick ==
  /\ now + TickHours <= MaxNow
  /\ now' = now + TickHours
  /\ UNCHANGED <<attempts, mastery, pc, call, pending, ret, calls, finished, studySession, testVars, extraVars, dbVars>>

\* ------------------------------------------------------------------------
\* startStudySession
\* ------------------------------------------------------------------------
RECURSIVE Ascending(_)
\* the rows of a select, in id order
Ascending(S) ==
  IF S = {} THEN <<>>
  ELSE LET m == CHOOSE x \in S : \A y \in S : x <= y
       IN <<m>> \o Ascending(S \ {m})

\* Math.random(): the k-th draw of a generator started in state seed, as the
\* numerator of a fraction over RngSeeds (a value in [0, 1))
RandomDraw(seed, k) == (seed + k) % RngSeeds

Swap(a, i, j) == [a EXCEPT ![i] = a[j], ![j] = a[i]]

RECURSIVE ShuffleFrom(_, _, _, _)
\* the loop of shuffleArray, i being the 0-based loop index
ShuffleFrom(a, i, seed, k) ==
  IF i <= 0 THEN a
  ELSE LET j == (RandomDraw(seed, k) * (i + 1)) \div RngSeeds
       IN ShuffleFrom(Swap(a, i + 1, j + 1), i - 1, seed, k + 1)

shuffleArray(a, seed) == ShuffleFrom(a, Len(a) - 1, seed, 0)

\* slice that keeps the whole array
SliceNoLimit(a, n) == a

\* array.slice(0, n)
Slice(a, n) == SubSeq(a, 1, IF Len(a) < n THEN Len(a) ELSE n)

\* question ids the user attempted for the concept within the last 24 hours
RecentQuestionIds(u, c) ==
  {attempts[i].question_id : i \in {k \in 1 .. Len(attempts) :
      /\ attempts[k].user_id = u
      /\ attempts[k].concept_id = c
      /\ attempts[k].created_at >= now - DAY_HOURS}}

\* a fill-up that appends every question of the concept, not only the seen
CandidateQuestionsRefill(u, c) ==
  LET allQuestions == Ascending(QuestionsOfConcept(c))
      recent == RecentQuestionIds(u, c)
      unseen == SelectSeq(allQuestions, LAMBDA q : q \notin recent)
  IN IF Len(unseen) < MAX_QUESTIONS_PER_SESSION THEN unseen \o allQuestions ELSE unseen

\* unseen questions first, the seen ones appended when fewer than the maximum
CandidateQuestions(u, c) ==
  LET allQuestions == Ascending(QuestionsOfConcept(c))
      recent == RecentQuestionIds(u, c)
      unseen == SelectSeq(allQuestions, LAMBDA q : q \notin recent)
      seen == SelectSeq(allQuestions, LAMBDA q : q \in recent)
  IN IF Len(unseen) < MAX_QUESTIONS_PER_SESSION THEN unseen \o seen ELSE unseen

\* the questions of the returned session: shuffle and limit
SelectQuestions(u, c, seed) ==
  Slice(shuffleArray(CandidateQuestions(u, c), seed), MAX_QUESTIONS_PER_SESSION)

FormatQuestion(q) == [id |-> q, conceptId |-> ConceptOf(q), correctAnswer |-> CorrectAnswer(q)]

startStudySession(u, c, seed) ==
  LET qs == SelectQuestions(u, c, seed)
      currentCorrect == NumOr(SelectSingle(u, c), "correct_count", 0)
      remaining == IF CORRECT_TO_MASTER - currentCorrect > 0
                   THEN CORRECT_TO_MASTER - currentCorrect ELSE 0
  IN /\ studySession' =
          IF QuestionsOfConcept(c) = {} THEN NoSession
          ELSE [ok |-> TRUE, conceptId |-> c,
                questions |-> [i \in 1 .. Len(qs) |-> FormatQuestion(qs[i])],
                masteryThreshold |-> remaining]
     /\ UNCHANGED <<now, attempts, mastery, pc, call, pending, ret, calls, finished, testVars, extraVars, dbVars>>

\* ------------------------------------------------------------------------
\* completeReview
\* ------------------------------------------------------------------------
NoReview == [pc |-> "idle", id |-> 0, wasSuccessful |-> FALSE, review_interval_days |-> 0,
             review_count |-> 0, next_review_at |-> NoTime]

\* Array.findIndex, 0-based, -1 when no element is >= x
FindIndexAtLeast(a, x) ==
  IF \E i \in DOMAIN a : a[i] >= x
  THEN (CHOOSE i \in DOMAIN a : a[i] >= x /\ \A j \in DOMAIN a : a[j] >= x => i <= j) - 1
  ELSE 0 - 1

\* mutant: a successful review doubles the interval
NewIntervalDaysDoubled(days, wasSuccessful) ==
  IF wasSuccessful THEN 2 * days ELSE REVIEW_INTERVALS[1]

\* the interval completeReview schedules next
NewIntervalDays(days, wasSuccessful) ==
  LET intervalIndex == FindIndexAtLeast(REVIEW_INTERVALS, days)
  IN IF wasSuccessful
     THEN IF intervalIndex < Len(REVIEW_INTERVALS) - 1
          THEN REVIEW_INTERVALS[intervalIndex + 2]
          ELSE days
     ELSE REVIEW_INTERVALS[1]

\* the reviews a row has been through
ReviewsDone(u, c) ==
  IF SelectSingle(u, c) = {} THEN 0
  ELSE (CHOOSE x \in SelectSingle(u, c) : TRUE).review_count

\* first await: read the mastery row and compute the new schedule
completeReview(u, c, wasSuccessful) ==
  /\ review.pc = "idle"
  /\ SelectSingle(u, c) # {}
  /\ LET m == CHOOSE x \in SelectSingle(u, c) : TRUE
         newIntervalDays == NewIntervalDays(m.review_interval_days, wasSuccessful)
     IN review' = [pc |-> "update", id |-> m.id, wasSuccessful |-> wasSuccessful,
                   review_interval_days |-> newIntervalDays,
                   review_count |-> m.review_count + 1,
                   next_review_at |-> now + newIntervalDays * DAY_HOURS]
  /\ UNCHANGED <<legacyVars, testVars, correct_answer, shuffle_log, engineVars, dbVars>>

\* second await: update the row by id
completeReviewUpdate ==
  /\ review.pc = "update"
  /\ mastery' = UpdateById(mastery, review.id,
                            [review_interval_days |-> review.review_interval_days,
                             review_count |-> review.review_count,
                             next_review_at |-> review.next_review_at])
  /\ review' = NoReview
  /\ UNCHANGED <<now, attempts, pc, call, pending, ret, calls, finished, studySession,
                 testVars, correct_answer, shuffle_log, engineVars, dbVars>>

\* ------------------------------------------------------------------------
\* The option shuffle migration and its rollback
\* ------------------------------------------------------------------------
\* the orders ORDER BY random() can give the option indexes
OptionPermutations ==
  {f \in [OptionRange -> OptionRange] : \A i, j \in OptionRange : i # j => f[i] # f[j]}

\* shuffle_question_options(p_question_id): every option gets its new index,
\* questions.correct_answer follows the is_correct option, the change is logged
shuffle_question_options(q, v_new_indices) ==
  /\ Len(shuffle_log) < MaxShuffles
  /\ correct_answer' = [correct_answer EXCEPT ![q] = v_new_indices[@]]
  /\ shuffle_log' = Append(shuffle_log,
                           [question_id |-> q, old_correct_answer |-> correct_answer[q],
                            new_correct_answer |-> v_new_indices[correct_answer[q]]])
  /\ UNCHANGED <<legacyVars, testVars, review, engineVars, dbVars>>

\* the rows that survive DELETE FROM questions WHERE id IN (...):
\* user_question_attempts.question_id is ON DELETE CASCADE
AttemptsAfterDelete(ids) == SelectSeq(attempts, LAMBDA a : a.question_id \notin ids)

\* rollback steps 3 and 4: delete the questions and options that are in the
\* backup, insert the backup rows
rollbackShuffle ==
  /\ shuffle_log # <<>>
  /\ attempts' = AttemptsAfterDelete(Questions)
  /\ correct_answer' = [q \in Questions |-> BackupCorrectAnswer(q)]
  /\ UNCHANGED <<now, mastery, pc, call, pending, ret, calls, finished, studySession,
                 testVars, review, shuffle_log, engineVars, dbVars>>

\* ------------------------------------------------------------------------
\* The test API (/api/v1/test), server side
\* ------------------------------------------------------------------------
SessionIds == 1 .. MaxSessions
TestQuestionIds == 1 .. NumTestQuestions
OptionIndexes == 0 .. 1
NoOption == 0 - 1
NoChance == 0 - 1

\* the question bank: one question per concept, its correct option
KcOf(q) == q
TestCorrect(q) == q % 2

\* the payload types of TestPage: every option carries is_correct and
\* explanation
TestQuestionOption(q, i) ==
  [id |-> i, text |-> "t", index |-> i, is_correct |-> (i = TestCorrect(q)),
   explanation |-> "e"]

TestQuestion(q) ==
  [id |-> q, concept_id |-> KcOf(q),
   options |-> [i \in 1 .. 2 |-> TestQuestionOption(q, i - 1)]]

NoData == [test_id |-> 0, questions |-> <<>>, resumed |-> FALSE,
           answered_count |-> 0, correct_count |-> 0]

\* TestData of a session: the answered / correct counts only when resuming
TestData(s, resumed) ==
  [test_id |-> s,
   questions |-> [i \in 1 .. Len(tsessions[s].question_ids) |->
                    TestQuestion(tsessions[s].question_ids[i])],
   resumed |-> resumed,
   answered_count |-> IF resumed THEN tsessions[s].answered_count ELSE 0,
   correct_count |-> IF resumed THEN tsessions[s].correct_count ELSE 0]

NoTestSession == [status |-> "none", question_ids |-> <<>>, answered_count |-> 0,
                  correct_count |-> 0, pass_chance |-> NoChance, completed_at |-> NoTime]

\* the lists the scheduler can fix for a session: no question twice
TestLists ==
  {qs \in UNION {[1 .. n -> TestQuestionIds] : n \in 0 .. NumTestQuestions} :
     \A i, j \in DOMAIN qs : i # j => qs[i] # qs[j]}

Created == Cardinality({s \in SessionIds : tsessions[s].status # "none"})

\* the pass chance of the current mastery state, undetermined without attempts
PassChance(b) ==
  LET RECURSIVE Sum(_, _)
      Sum(S, f) == IF S = {} THEN 0
                   ELSE LET x == CHOOSE y \in S : TRUE IN b[x][f] + Sum(S \ {x}, f)
      n == Sum(TestQuestionIds, "total_attempts")
  IN IF n = 0 THEN NoChance ELSE (Sum(TestQuestionIds, "total_correct") * 100) \div n

\* in_progress -> completed, stamping completed_at and the pass chance
Completed(sess, b) ==
  [sess EXCEPT !.status = "completed", !.completed_at = tnow, !.pass_chance = PassChance(b)]

\* a complete() that stamps the session again on every call
CompleteSessionRestamps(sess, b) == Completed(sess, b)

\* complete(): idempotent on a completed session
CompleteSession(sess, b) ==
  IF sess.status = "in_progress" THEN Completed(sess, b) ELSE sess

\* the Attempt log already holds an answer of this session to this question
AlreadyCounted(s, q) ==
  \E i \in 1 .. Len(tattempts) : tattempts[i].session = s /\ tattempts[i].question = q

\* counters that count every accepted answer, a repeated one too
BumpCountersEveryAnswer(sess, counted, correct) ==
  [sess EXCEPT !.answered_count = @ + 1,
               !.correct_count = @ + (IF correct THEN 1 ELSE 0)]

\* the session counters after an accepted answer; a question already
\* counted for the session is not counted again
BumpCounters(sess, counted, correct) ==
  IF counted THEN sess
  ELSE [sess EXCEPT !.answered_count = @ + 1,
                    !.correct_count = @ + (IF correct THEN 1 ELSE 0)]

\* a session whose last question was answered completes itself (when the
\* server does so)
AutoCompleteIfDone(sess, b) ==
  IF autoComplete /\ sess.status = "in_progress"
     /\ sess.answered_count = Len(sess.question_ids)
  THEN Completed(sess, b) ELSE sess

BktAfter(b, q, correct) ==
  [b EXCEPT ![KcOf(q)] = [total_attempts |-> @.total_attempts + 1,
                          total_correct |-> @.total_correct + (IF correct THEN 1 ELSE 0)]]

\* a server that does not look at the status of the session
AnswerOutcomeIgnoresStatus(m, writeOk) ==
  IF m.question \notin TestQuestionIds THEN "not_found"
  ELSE IF m.option \notin OptionIndexes THEN "validation_error"
  ELSE IF m.session # 0 /\ tsessions[m.session].status = "none" THEN "not_found"
  ELSE IF ~writeOk THEN "persistence_error"
  ELSE "ok"

\* how the server answers an answer request
AnswerOutcome(m, writeOk) ==
  IF m.question \notin TestQuestionIds THEN "not_found"
  ELSE IF m.option \notin OptionIndexes THEN "validation_error"
  ELSE IF m.session # 0 /\ tsessions[m.session].status = "none" THEN "not_found"
  ELSE IF m.session # 0 /\ tsessions[m.session].status = "completed" THEN "session_closed"
  ELSE IF ~writeOk THEN "persistence_error"
  ELSE "ok"

\* POST /test/answer: all writes of an accepted answer commit together
HandleAnswer(m, writeOk) ==
  LET s == m.session
      q == m.question
      correct == m.option = TestCorrect(q)
      outcome == AnswerOutcome(m, writeOk)
      b == BktAfter(bkt, q, correct)
  IN /\ m \in net
     /\ m.type = "answer"
     /\ net' = net \ {m}
     /\ lastResp' = [session |-> s, question |-> q, outcome |-> outcome]
     /\ IF outcome = "ok"
        THEN /\ bkt' = b
             /\ tattempts' = Append(tattempts, [session |-> s, question |-> q,
                                                 option |-> m.option, is_correct |-> correct])
             /\ tsessions' =
                  IF s = 0 THEN tsessions
                  ELSE [tsessions EXCEPT ![s] =
                          AutoCompleteIfDone(BumpCounters(@, AlreadyCounted(s, q), correct), b)]
        ELSE UNCHANGED <<bkt, tattempts, tsessions>>
     /\ UNCHANGED <<autoComplete, tnow, tfixed, cl, legacyVars, extraVars, dbVars>>

\* how the server answers a complete request
CompleteOutcome(m, writeOk) ==
  IF tsessions[m.session].status = "none" THEN "not_found"
  ELSE IF tsessions[m.session].status = "completed" THEN "already_completed"
  ELSE IF ~writeOk THEN "persistence_error"
  ELSE "completed"

\* POST /test/complete
HandleComplete(m, writeOk) ==
  LET outcome == CompleteOutcome(m, writeOk)
  IN /\ m \in net
     /\ m.type = "complete"
     /\ net' = net \ {m}
     /\ lastResp' = [session |-> m.session, question |-> 0, outcome |-> outcome]
     /\ tsessions' = IF outcome \in {"completed", "already_completed"}
                     THEN [tsessions EXCEPT ![m.session] = CompleteSession(@, bkt)]
                     ELSE tsessions
     /\ UNCHANGED <<autoComplete, tnow, tfixed, tattempts, bkt, cl, legacyVars, extraVars, dbVars>>

\* a response reaches the page only while the page that asked is mounted
Reply(m, r) == IF m.epoch = cl.epoch /\ cl.page = "test" THEN {r} ELSE {}

\* GET /test/:user/:course: create a session with a fixed question list
HandleCreate(m, qs, ok) ==
  LET s == Created + 1
      sess == [NoTestSession EXCEPT !.status = "in_progress", !.question_ids = qs]
  IN /\ m \in net
     /\ m.type = "create"
     /\ Created < MaxSessions
     /\ IF ok
        THEN /\ tsessions' = [tsessions EXCEPT ![s] = sess]
             /\ tfixed' = [tfixed EXCEPT ![s] = qs]
             /\ net' = (net \ {m}) \cup
                  Reply(m, [type |-> "testData", epoch |-> m.epoch, ok |-> TRUE,
                            data |-> [test_id |-> s,
                                      questions |-> [i \in 1 .. Len(qs) |-> TestQuestion(qs[i])],
                                      resumed |-> FALSE, answered_count |-> 0,
                                      correct_count |-> 0]])
        ELSE /\ net' = (net \ {m}) \cup
                  Reply(m, [type |-> "testData", epoch |-> m.epoch, ok |-> FALSE,
                            data |-> NoData])
             /\ UNCHANGED <<tsessions, tfixed>>
     /\ UNCHANGED <<autoComplete, tnow, tattempts, bkt, lastResp, cl, legacyVars, extraVars, dbVars>>

\* a resume that serves whatever the session row holds
ResumableAnyStatus(s) == TRUE

\* resume(session_id): only an in_progress session is resumable
Resumable(s) == tsessions[s].status = "in_progress"

\* GET /test/resume/:user/:session
HandleResume(m, ok) ==
  /\ m \in net
  /\ m.type = "resume"
  /\ net' = (net \ {m}) \cup
       Reply(m, IF ok /\ Resumable(m.session)
                THEN [type |-> "testData", epoch |-> m.epoch, ok |-> TRUE,
                      data |-> TestData(m.session, TRUE)]
                ELSE [type |-> "testData", epoch |-> m.epoch, ok |-> FALSE,
                      data |-> NoData])
  /\ UNCHANGED <<autoComplete, tnow, tsessions, tfixed, tattempts, bkt, lastResp, cl, legacyVars, extraVars, dbVars>>

\* GET /test/pass-chance/:user/:course
HandlePassChance(m, ok) ==
  /\ m \in net
  /\ m.type = "passChance"
  /\ net' = (net \ {m}) \cup
       Reply(m, [type |-> "passChanceData", epoch |-> m.epoch, ok |-> ok,
                 pass_probability |-> IF ok THEN PassChance(bkt) ELSE NoChance])
  /\ UNCHANGED <<autoComplete, tnow, tsessions, tfixed, tattempts, bkt, lastResp, cl, legacyVars, extraVars, dbVars>>

TickTest ==
  /\ tnow < MaxTestNow
  /\ tnow' = tnow + 1
  /\ UNCHANGED <<autoComplete, tsessions, tfixed, tattempts, bkt, net, lastResp, cl, legacyVars, extraVars, dbVars>>

\* ------------------------------------------------------------------------
\* TestPage: the browser side
\* ------------------------------------------------------------------------
NoFeedback == [shown |-> FALSE, is_correct |-> FALSE, correct_option_index |-> 0,
               selected_option_index |-> 0]

\* the state of a freshly mounted TestPage whose query is fetching
Mounted(url, ep) ==
  [page |-> "test", url |-> url, epoch |-> ep, query |-> "loading",
   testData |-> NoData, resumeApplied |-> FALSE, currentIndex |-> 0,
   selectedOption |-> NoOption, feedback |-> NoFeedback, correctCount |-> 0,
   answeredCount |-> 0, quizComplete |-> FALSE, loadingPassChance |-> FALSE,
   passChance |-> NoChance]

\* the course page: no TestPage is mounted
Unmounted(ep) == [Mounted(0, ep) EXCEPT !.page = "course", !.query = "idle"]

Requests(msgs) == {m \in msgs : m.type \in {"create", "resume", "answer", "complete", "passChance"}}

\* queryFn: fetchResumeTest when the URL names a session, fetchTest otherwise
QueryRequest(url, ep) ==
  IF url # 0 THEN [type |-> "resume", session |-> url, epoch |-> ep]
  ELSE [type |-> "create", epoch |-> ep]

questions == cl.testData.questions
totalQuestions == Len(questions)
HasCurrentQuestion == cl.currentIndex + 1 <= totalQuestions
currentQuestion == questions[cl.currentIndex + 1]

\* which of the render branches of TestPage is shown
ActiveView ==
  cl.page = "test" /\ cl.query = "loaded" /\ totalQuestions > 0 /\ ~cl.quizComplete
ResultsView ==
  cl.page = "test" /\ cl.query = "loaded" /\ totalQuestions > 0 /\ cl.quizComplete

\* CourseDetailPage.handleStartQuiz: open /test/:courseId
OpenTest ==
  /\ cl.page = "course"
  /\ Cardinality(net) + 1 <= MaxInFlight
  /\ cl.epoch < MaxMounts
  /\ cl' = Mounted(0, cl.epoch + 1)
  /\ net' = Requests(net) \cup {QueryRequest(0, cl.epoch + 1)}
  /\ UNCHANGED <<autoComplete, tnow, tsessions, tfixed, tattempts, bkt, lastResp, legacyVars, extraVars, dbVars>>

\* CourseDetailPage.handleResumeQuiz, or the URL typed: /test/:courseId?session=s
OpenResume(s) ==
  /\ cl.page = "course"
  /\ Cardinality(net) + 1 <= MaxInFlight
  /\ cl.epoch < MaxMounts
  /\ cl' = Mounted(s, cl.epoch + 1)
  /\ net' = Requests(net) \cup {QueryRequest(s, cl.epoch + 1)}
  /\ UNCHANGED <<autoComplete, tnow, tsessions, tfixed, tattempts, bkt, lastResp, legacyVars, extraVars, dbVars>>

\* the browser reloads the page: the URL stays, every React state is lost
Reload ==
  /\ cl.page = "test"
  /\ Cardinality(net) + 1 <= MaxInFlight
  /\ cl.epoch < MaxMounts
  /\ cl' = Mounted(cl.url, cl.epoch + 1)
  /\ net' = Requests(net) \cup {QueryRequest(cl.url, cl.epoch + 1)}
  /\ UNCHANGED <<autoComplete, tnow, tsessions, tfixed, tattempts, bkt, lastResp, legacyVars, extraVars, dbVars>>

\* handleExit: back to the course page
handleExit ==
  /\ cl.page = "test"
  /\ cl' = Unmounted(cl.epoch)
  /\ net' = Requests(net)
  /\ UNCHANGED <<autoComplete, tnow, tsessions, tfixed, tattempts, bkt, lastResp, legacyVars, extraVars, dbVars>>

\* the effect that applies the saved progress of a resumed session
ApplyResume(c) ==
  IF c.url # 0 /\ ~c.resumeApplied /\ c.testData.answered_count > 0
  THEN [c EXCEPT !.resumeApplied = TRUE,
                 !.currentIndex = c.testData.answered_count,
                 !.answeredCount = c.testData.answered_count,
                 !.correctCount = c.testData.correct_count]
  ELSE c

\* fetchTest / fetchResumeTest: a response that is not ok throws
QueryResult(c, r) ==
  IF r.ok THEN ApplyResume([c EXCEPT !.query = "loaded", !.testData = r.data])
  ELSE [c EXCEPT !.query = "error", !.testData = NoData]

\* the query of TestPage settles
ReceiveQuery(r) ==
  /\ r \in net
  /\ r.type = "testData"
  /\ r.epoch = cl.epoch
  /\ cl.page = "test"
  /\ cl.query = "loading"
  /\ cl' = QueryResult(cl, r)
  /\ net' = net \ {r}
  /\ UNCHANGED <<autoComplete, tnow, tsessions, tfixed, tattempts, bkt, lastResp, legacyVars, extraVars, dbVars>>

\* the Retry button of the error view: refetch
RetryQuery ==
  /\ cl.page = "test"
  /\ Cardinality(net) + 1 <= MaxInFlight
  /\ cl.query = "error"
  /\ cl' = [cl EXCEPT !.query = "loading"]
  /\ net' = net \cup {QueryRequest(cl.url, cl.epoch)}
  /\ UNCHANGED <<autoComplete, tnow, tsessions, tfixed, tattempts, bkt, lastResp, legacyVars, extraVars, dbVars>>

\* the feedback handleSelectOption builds from the options of the payload
LocalFeedback(q, optionIndex) ==
  LET selectedOpt == CHOOSE o \in {q.options[i] : i \in DOMAIN q.options} : o.index = optionIndex
      correctOpt == CHOOSE o \in {q.options[i] : i \in DOMAIN q.options} : o.is_correct
  IN [shown |-> TRUE, is_correct |-> selectedOpt.is_correct,
      correct_option_index |-> correctOpt.index,
      selected_option_index |-> optionIndex]

\* handleSelectOption: instant local feedback, the answer is sent in the background
handleSelectOption(optionIndex) ==
  /\ ActiveView
  /\ Len(tattempts) + Cardinality({m \in net : m.type = "answer"}) < MaxAnswers
  /\ Cardinality(net) + 1 <= MaxInFlight
  /\ ~cl.feedback.shown
  /\ HasCurrentQuestion
  /\ \E i \in DOMAIN currentQuestion.options : currentQuestion.options[i].index = optionIndex
  /\ LET fb == LocalFeedback(currentQuestion, optionIndex)
     IN cl' = [cl EXCEPT !.selectedOption = optionIndex,
                         !.feedback = fb,
                         !.answeredCount = @ + 1,
                         !.correctCount = @ + (IF fb.is_correct THEN 1 ELSE 0)]
  /\ net' = net \cup {[type |-> "answer", session |-> cl.testData.test_id,
                        question |-> currentQuestion.id, option |-> optionIndex]}
  /\ UNCHANGED <<autoComplete, tnow, tsessions, tfixed, tattempts, bkt, lastResp, legacyVars, extraVars, dbVars>>

\* handleNext: the next question, or the results with the complete request
\* and the pass-chance request sent
handleNext ==
  /\ ActiveView
  /\ Cardinality(net) + 2 <= MaxInFlight
  /\ cl.feedback.shown
  /\ IF cl.currentIndex + 1 >= totalQuestions
     THEN /\ cl' = [cl EXCEPT !.quizComplete = TRUE, !.loadingPassChance = TRUE]
          /\ net' = net \cup
               (IF cl.testData.test_id # 0
                THEN {[type |-> "complete", session |-> cl.testData.test_id]} ELSE {})
               \cup {[type |-> "passChance", epoch |-> cl.epoch]}
     ELSE /\ cl' = [cl EXCEPT !.currentIndex = @ + 1, !.selectedOption = NoOption,
                              !.feedback = NoFeedback]
          /\ net' = net
  /\ UNCHANGED <<autoComplete, tnow, tsessions, tfixed, tattempts, bkt, lastResp, legacyVars, extraVars, dbVars>>

\* the await of fetchPassChance in handleNext returns
ReceivePassChance(r) ==
  /\ r \in net
  /\ r.type = "passChanceData"
  /\ r.epoch = cl.epoch
  /\ cl.page = "test"
  /\ cl' = [cl EXCEPT !.passChance = IF r.ok THEN r.pass_probability ELSE NoChance,
                      !.loadingPassChance = FALSE]
  /\ net' = net \ {r}
  /\ UNCHANGED <<autoComplete, tnow, tsessions, tfixed, tattempts, bkt, lastResp, legacyVars, extraVars, dbVars>>

\* handleRetake: reset, drop the session from the URL, fetch a fresh quiz
handleRetake ==
  /\ ResultsView
  /\ Cardinality(net) + 1 <= MaxInFlight
  /\ cl' = [Mounted(0, cl.epoch) EXCEPT !.loadingPassChance = cl.loadingPassChance]
  /\ net' = net \cup {QueryRequest(0, cl.epoch)}
  /\ UNCHANGED <<autoComplete, tnow, tsessions, tfixed, tattempts, bkt, lastResp, legacyVars, extraVars, dbVars>>

\* ------------------------------------------------------------------------
\* The mastery engine (/api/v1/bkt), server side, from the specification
\* ------------------------------------------------------------------------
\* Probabilities are exact fractions <<numerator, denominator>> in lowest
\* terms, denominator positive.
RECURSIVE GCD(_, _)
GCD(a, b) == IF b = 0 THEN a ELSE GCD(b, a % b)

Frac(n, d) == LET g == GCD(n, d) IN <<n \div g, d \div g>>

Zero == Frac(0, 1)

One == Frac(1, 1)

\* sums over the least common denominator, products after cancelling
Add(x, y) ==
  LET g == GCD(x[2], y[2])
  IN Frac(x[1] * (y[2] \div g) + y[1] * (x[2] \div g), (x[2] \div g) * y[2])

Sub(x, y) ==
  LET g == GCD(x[2], y[2])
  IN Frac(x[1] * (y[2] \div g) - y[1] * (x[2] \div g), (x[2] \div g) * y[2])

Mul(x, y) ==
  LET g1 == GCD(x[1], y[2])
      g2 == GCD(y[1], x[2])
  IN Frac((x[1] \div g1) * (y[1] \div g2), (x[2] \div g2) * (y[2] \div g1))

\* x / y for y > 0
Div(x, y) == Mul(x, <<y[2], y[1]>>)

Geq(x, y) ==
  LET g == GCD(x[2], y[2])
  IN x[1] * (y[2] \div g) >= y[1] * (x[2] \div g)

Clamp(x) == IF Geq(Zero, x) THEN Zero ELSE IF Geq(x, One) THEN One ELSE x

\* BKT_CONFIG.MASTERY_THRESHOLD: 0.85
MASTERY_THRESHOLD == Frac(17, 20)

\* bkt_mastery column defaults: 0.3, 0.1, 0.1, 0.25
DEFAULT_P_MASTERY == Frac(3, 10)

DEFAULT_P_LEARN == Frac(1, 10)

DEFAULT_P_SLIP == Frac(1, 10)

DEFAULT_P_GUESS == Frac(1, 4)

KCs == 1 .. NumKCs

\* the record created lazily on the first attempt
DefaultRecord ==
  [created |-> TRUE, p_mastery |-> DEFAULT_P_MASTERY, p_learn |-> DEFAULT_P_LEARN,
   p_slip |-> DEFAULT_P_SLIP, p_guess |-> DEFAULT_P_GUESS,
   total_attempts |-> 0, total_correct |-> 0]

NoRecord == [DefaultRecord EXCEPT !.created = FALSE]

\* each KC's MasteryRecord, the default if absent
RecordOf(recs, k) == IF recs[k].created THEN recs[k] ELSE DefaultRecord

\* the question pool: KC k owns questions 2k-1 and, for the first
\* TwoQuestionKCs KCs, 2k; the correct option of question q is q % 2
QuestionPool(k) == IF k <= TwoQuestionKCs THEN {2 * k - 1, 2 * k} ELSE {2 * k - 1}

PoolQuestions == UNION {QuestionPool(k) : k \in KCs}

KcOfQuestion(q) == (q + 1) \div 2

CorrectOption(q) == q % 2

\* evidence step: numerator and denominator of Bayes' rule on the observation
Evidence(prior, correct) ==
  LET p == prior.p_mastery
      num == IF correct THEN Mul(p, Sub(One, prior.p_slip)) ELSE Mul(p, prior.p_slip)
      other == IF correct THEN Mul(Sub(One, p), prior.p_guess)
               ELSE Mul(Sub(One, p), Sub(One, prior.p_guess))
  IN [num |-> num, den |-> Add(num, other)]

\* mutant: the evidence of a correct answer computed as that of a wrong one
updateSwapped(prior, correct) ==
  LET e == Evidence(prior, ~correct)
  IN IF e.den = Zero THEN prior.p_mastery
     ELSE LET p_post == Div(e.num, e.den)
          IN Clamp(Add(p_post, Mul(Sub(One, p_post), prior.p_learn)))

\* update(prior, correct) -> posterior p_mastery
update(prior, correct) ==
  LET e == Evidence(prior, correct)
  IN IF e.den = Zero THEN prior.p_mastery
     ELSE LET p_post == Div(e.num, e.den)
          IN Clamp(Add(p_post, Mul(Sub(One, p_post), prior.p_learn)))

isMastered(record) == Geq(record.p_mastery, MASTERY_THRESHOLD)

NoAnswerFeedback ==
  [status |-> "none", kc |-> 0, correct |-> FALSE, pre |-> Zero, post |-> Zero,
   is_newly_mastered |-> FALSE]

TotalAttempts(recs) ==
  LET RECURSIVE Sum(_)
      Sum(S) == IF S = {} THEN 0
                ELSE LET k == CHOOSE x \in S : TRUE
                     IN recs[k].total_attempts + Sum(S \ {k})
  IN Sum(KCs)

\* submit_answer without a session id: resolve, compare, get-or-create,
\* update, persist, append the Attempt row, return the feedback
submit_answer(q, selected) ==
  /\ TotalAttempts(records) < MaxEngineAnswers
  /\ IF q \notin PoolQuestions
       THEN /\ feedback' = [NoAnswerFeedback EXCEPT !.status = "not_found"]
            /\ UNCHANGED <<records, eattempts>>
       ELSE LET k == KcOfQuestion(q)
                correct == (selected = CorrectOption(q))
                prior == RecordOf(records, k)
                posterior == update(prior, correct)
            IN /\ records' = [records EXCEPT ![k] =
                     [prior EXCEPT !.p_mastery = posterior,
                                   !.total_attempts = @ + 1,
                                   !.total_correct = IF correct THEN @ + 1 ELSE @]]
               /\ eattempts' = eattempts \cup {q}
               /\ feedback' = [status |-> "ok", kc |-> k, correct |-> correct,
                               pre |-> prior.p_mastery, post |-> posterior,
                               is_newly_mastered |->
                                 (~Geq(prior.p_mastery, MASTERY_THRESHOLD)
                                  /\ Geq(posterior, MASTERY_THRESHOLD))]
  /\ UNCHANGED <<study, passInput, passResp, passChance, legacyVars, testVars,
                 correct_answer, review, shuffle_log, dbVars>>

\* the scope of a session: a topic of the course, or (NoTopic) the course;
\* KC 1 is alone in topic 1, topic EmptyTopic has no KC
NoTopic == 0

TopicOf(k) == IF k = 1 THEN 1 ELSE IF k <= 3 THEN 2 ELSE 3

EmptyTopic == 4

Topics == 1 .. EmptyTopic

InScope(topic) == IF topic = NoTopic THEN KCs ELSE {k \in KCs : TopicOf(k) = topic}

\* N: the KCs one session selects at most
SESSION_KCS == 10

\* mutant: the order ignores total_attempts
WeakerIgnoringAttempts(recs, a, b) ==
  LET ra == RecordOf(recs, a)
      rb == RecordOf(recs, b)
  IN IF ra.p_mastery # rb.p_mastery THEN ~Geq(ra.p_mastery, rb.p_mastery)
     ELSE a < b

\* the order of selection: ascending by p_mastery, then fewer
\* total_attempts, then creation order
Weaker(recs, a, b) ==
  LET ra == RecordOf(recs, a)
      rb == RecordOf(recs, b)
  IN IF ra.p_mastery # rb.p_mastery THEN ~Geq(ra.p_mastery, rb.p_mastery)
     ELSE IF ra.total_attempts # rb.total_attempts
            THEN ra.total_attempts < rb.total_attempts
            ELSE a < b

RECURSIVE SortKCs(_, _)
SortKCs(recs, S) ==
  IF S = {} THEN <<>>
  ELSE LET w == CHOOSE a \in S : \A b \in S \ {a} : Weaker(recs, a, b)
       IN <<w>> \o SortKCs(recs, S \ {w})

Take(seq, n) == SubSeq(seq, 1, IF Len(seq) < n THEN Len(seq) ELSE n)

ChosenKCs(recs, topic) == Take(SortKCs(recs, InScope(topic)), SESSION_KCS)

\* prefer questions not attempted in the last 24h; if none remain, reuse
Eligible(recent, k) ==
  LET unseen == QuestionPool(k) \ recent
  IN IF unseen # {} THEN unseen ELSE QuestionPool(k)

\* one question per chosen KC, any eligible one
RECURSIVE Picks(_, _)
Picks(recent, chosen) ==
  IF chosen = <<>> THEN {<<>>}
  ELSE {<<[kc |-> Head(chosen), id |-> q]>> \o rest :
          q \in Eligible(recent, Head(chosen)), rest \in Picks(recent, Tail(chosen))}

\* mutant: all_mastered as soon as one KC in scope is mastered
AnyMastered(recs, topic) ==
  \E k \in InScope(topic) : isMastered(RecordOf(recs, k))

AllMastered(recs, topic) ==
  /\ InScope(topic) # {}
  /\ \A k \in InScope(topic) : isMastered(RecordOf(recs, k))

\* create_session: the responses the scheduler can give
create_session(recs, recent, topic) ==
  IF AllMastered(recs, topic)
    THEN {[all_mastered |-> TRUE, questions |-> <<>>]}
    ELSE {[all_mastered |-> FALSE, questions |-> qs] :
            qs \in Picks(recent, ChosenKCs(recs, topic))}

\* ------------------------------------------------------------------------
\* The StudySession component (unnamed/part_015) and fetchBktSession
\* ------------------------------------------------------------------------
NoBktSession == [all_mastered |-> FALSE, questions |-> <<>>, null |-> TRUE]

\* run tells the runs of the loadSession effect apart
\* posted lists the question indexes whose answer this showing of the session
\* has sent; inflight counts the submitAnswer calls that have not returned
NoStudy == [mounted |-> FALSE, run |-> 0, topic |-> NoTopic, session |-> NoBktSession,
            sessionComplete |-> FALSE, currentIndex |-> 0, showFeedback |-> FALSE,
            submitting |-> FALSE, inflight |-> 0, posted |-> <<>>]

\* fetchBktSession: the body of the response, null when the request fails
fetchBktSession(resp, ok) ==
  IF ok THEN [all_mastered |-> resp.all_mastered, questions |-> resp.questions,
              null |-> FALSE]
  ELSE NoBktSession

\* the component mounts for a topic (or the course) and its effect runs
loadSession(topic, ok) ==
  /\ \E resp \in create_session(records, eattempts, topic) :
       LET bktSession == fetchBktSession(resp, ok)
       IN study' = [NoStudy EXCEPT
                      !.mounted = TRUE, !.run = 1 - study.run, !.topic = topic,
                      !.session = bktSession,
                      !.sessionComplete = (~bktSession.null /\ bktSession.all_mastered)]
  /\ UNCHANGED <<records, eattempts, feedback, passInput, passResp, passChance,
                 legacyVars, testVars, correct_answer, review, shuffle_log, dbVars>>

\* what the component renders once loading is over
StudyView ==
  IF ~study.mounted THEN "none"
  ELSE IF study.session.null THEN "failed"
  ELSE IF study.session.all_mastered /\ Len(study.session.questions) = 0 THEN "all_mastered"
  ELSE IF Len(study.session.questions) = 0 /\ ~study.sessionComplete THEN "no_questions"
  ELSE IF study.sessionComplete THEN "complete"
  ELSE "question"

\* the questions of the session on screen
StudyHasCurrentQuestion ==
  ~study.session.null /\ study.currentIndex < Len(study.session.questions)

\* mutant: the guard without the submitting flag
CanSubmitWhileSubmitting(st) == ~st.showFeedback

\* the guard of handleSelectOption (the option buttons are disabled alike)
CanSubmit(st) == ~st.showFeedback /\ ~st.submitting

\* handleSelectOption of StudySession, up to its await of submitAnswer
StudySelectOption ==
  /\ StudyView = "question"
  /\ StudyHasCurrentQuestion
  /\ CanSubmit(study)
  /\ study.inflight < MaxStudyInFlight
  /\ study' = [study EXCEPT !.submitting = TRUE, !.showFeedback = TRUE,
                            !.inflight = @ + 1,
                            !.posted = Append(@, study.currentIndex)]
  /\ UNCHANGED <<records, eattempts, feedback, passInput, passResp, passChance,
                 legacyVars, testVars, correct_answer, review, shuffle_log, dbVars>>

\* submitAnswer returns (a result or null): the rest of handleSelectOption
StudySubmitReturns ==
  /\ study.mounted
  /\ study.inflight > 0
  /\ study' = [study EXCEPT !.inflight = @ - 1, !.submitting = FALSE]
  /\ UNCHANGED <<records, eattempts, feedback, passInput, passResp, passChance,
                 legacyVars, testVars, correct_answer, review, shuffle_log, dbVars>>

\* handleNext of StudySession; its button shows with the feedback
StudyNext ==
  /\ StudyView = "question"
  /\ study.showFeedback
  /\ study' = IF study.currentIndex + 1 >= Len(study.session.questions)
                 THEN [study EXCEPT !.sessionComplete = TRUE]
                 ELSE [study EXCEPT !.currentIndex = @ + 1, !.showFeedback = FALSE]
  /\ UNCHANGED <<records, eattempts, feedback, passInput, passResp, passChance,
                 legacyVars, testVars, correct_answer, review, shuffle_log, dbVars>>

\* handleRestart: a fresh session; the old one stays when the fetch fails
handleRestart(ok) ==
  /\ StudyView = "complete"
  /\ \E resp \in create_session(records, eattempts, study.topic) :
       LET s == fetchBktSession(resp, ok)
       IN study' = [study EXCEPT
                      !.run = 1 - @,
                      !.sessionComplete = (~s.null /\ s.all_mastered),
                      !.currentIndex = 0, !.showFeedback = FALSE,
                      !.session = IF s.null THEN @ ELSE s,
                      !.posted = <<>>]
  /\ UNCHANGED <<records, eattempts, feedback, passInput, passResp, passChance,
                 legacyVars, testVars, correct_answer, review, shuffle_log, dbVars>>

\* ------------------------------------------------------------------------
\* PassChanceAggregator (GET /test/pass-chance), from the specification,
\* and the dashboard's fetchCoursePassChance (unnamed/part_004)
\* ------------------------------------------------------------------------
\* expected correctness of one KC
PEff(r) ==
  Add(Mul(r.p_mastery, Sub(One, r.p_slip)), Mul(Sub(One, r.p_mastery), r.p_guess))

\* dp[i][k] = dp[i-1][k] (1 - p_eff_i) + dp[i-1][k-1] p_eff_i, dp[0][0] = 1:
\* the row dp[Len(ps)]
RECURSIVE PoissonBinomial(_)
PoissonBinomial(ps) ==
  IF ps = <<>> THEN [k \in {0} |-> One]
  ELSE LET i == Len(ps)
           prev == PoissonBinomial(SubSeq(ps, 1, i - 1))
       IN [k \in 0 .. i |->
             Add(IF k <= i - 1 THEN Mul(prev[k], Sub(One, ps[i])) ELSE Zero,
                 IF k >= 1 THEN Mul(prev[k - 1], ps[i]) ELSE Zero)]

RECURSIVE SumOver(_, _)
SumOver(S, f) ==
  IF S = {} THEN Zero
  ELSE LET x == CHOOSE y \in S : TRUE IN Add(f[x], SumOver(S \ {x}, f))

Undetermined == [undetermined |-> TRUE, total_skills |-> 0, pass_probability |-> Zero]

\* mutant: a grade passes only when it exceeds the target
computeStrict(kcs, target_grade) ==
  LET K == Len(kcs)
      t == Clamp(target_grade)
      dp == PoissonBinomial([i \in 1 .. K |-> PEff(kcs[i])])
  IN IF K = 0 THEN Undetermined
     ELSE [undetermined |-> FALSE, total_skills |-> K,
           pass_probability |-> SumOver({c \in 0 .. K : ~Geq(t, Frac(c, K))}, dp)]

\* compute(user, course, target_grade) over the records of the attempted KCs
compute(kcs, target_grade) ==
  LET K == Len(kcs)
      t == Clamp(target_grade)
      dp == PoissonBinomial([i \in 1 .. K |-> PEff(kcs[i])])
  IN IF K = 0 THEN Undetermined
     ELSE [undetermined |-> FALSE, total_skills |-> K,
           pass_probability |-> SumOver({c \in 0 .. K : Geq(Frac(c, K), t)}, dp)]

NoPassResp == [pc |-> "idle", ok |-> FALSE, body |-> Undetermined]

NoPassChance == [resolved |-> FALSE, null |-> TRUE, value |-> Zero]

Null == [resolved |-> TRUE, null |-> TRUE, value |-> Zero]

\* fetchDashboardData, steps 3 and 4: a course without attempted rows gets
\* no request and a null pass chance, an active course is fetched
fetchDashboardData ==
  /\ passResp.pc = "idle"
  /\ ~passChance.resolved
  /\ IF Len(passInput.kcs) = 0
       THEN passChance' = Null /\ UNCHANGED passResp
       ELSE passResp' = [NoPassResp EXCEPT !.pc = "requested"] /\ UNCHANGED passChance
  /\ UNCHANGED <<records, eattempts, feedback, study, passInput, legacyVars, testVars,
                 correct_answer, review, shuffle_log, dbVars>>

\* the server answers, or fails (res.ok false, or fetch throws)
HandleCoursePassChance(ok) ==
  /\ passResp.pc = "requested"
  /\ passResp' = [pc |-> "responded", ok |-> ok,
                  body |-> IF ok THEN compute(passInput.kcs, passInput.target_grade)
                           ELSE Undetermined]
  /\ UNCHANGED <<records, eattempts, feedback, study, passInput, passChance, legacyVars,
                 testVars, correct_answer, review, shuffle_log, dbVars>>

\* fetchCoursePassChance, after its awaits
fetchCoursePassChance ==
  /\ passResp.pc = "responded"
  /\ passChance' =
       IF ~passResp.ok THEN Null
       ELSE IF passResp.body.total_skills = 0 THEN Null
       ELSE IF passResp.body.undetermined THEN Null
       ELSE [resolved |-> TRUE, null |-> FALSE, value |-> passResp.body.pass_probability]
  /\ passResp' = [passResp EXCEPT !.pc = "done"]
  /\ UNCHANGED <<records, eattempts, feedback, study, passInput, legacyVars, testVars,
                 correct_answer, review, shuffle_log, dbVars>>

\* ------------------------------------------------------------------------
\* Specifications of the legacy study service
\* ------------------------------------------------------------------------
\* ------------------------------------------------------------------------
\* Migration 20260222_add_course_unique_constraint_to_bkt_mastery.sql
\* ------------------------------------------------------------------------
NULL == "null"

\* the = of SQL: never true of a NULL
SqlEq(x, y) == x # NULL /\ y # NULL /\ x = y

\* the columns of the new constraint agree
SameKey(a, b) ==
  /\ SqlEq(a.user_id, b.user_id)
  /\ SqlEq(a.course_id, b.course_id)
  /\ SqlEq(a.knowledge_component_id, b.knowledge_component_id)

\* DELETE FROM bkt_mastery a USING bkt_mastery b WHERE ... AND a.id < b.id
Deduplicated(rows) ==
  {a \in rows : ~\E b \in rows : SameKey(a, b) /\ a.id < b.id}

\* UNIQUE (user_id, course_id, knowledge_component_id) accepts the rows
UniqueHolds(rows) ==
  \A a, b \in rows : SameKey(a, b) => a = b

\* the migration: the DELETE, then ADD CONSTRAINT, which fails and rolls
\* the migration back when duplicates are left
add_course_unique_constraint ==
  /\ ~bkt_mastery.unique
  /\ UniqueHolds(Deduplicated(bkt_mastery.rows))
  /\ bkt_mastery' = [rows |-> Deduplicated(bkt_mastery.rows), unique |-> TRUE]
  /\ UNCHANGED <<legacyVars, testVars, extraVars, quizVars, question_options, nextConcept>>

\* ------------------------------------------------------------------------
\* submitQuizAttempt (features/quiz/services/quizService.ts)
\* ------------------------------------------------------------------------
\* the quizzes stored: quiz 1 belongs to a document, quiz 2 to none
QuizIds == {1, 2}

QuizQuestionIds == {1, 2}

QuizDocumentId(quizId) == IF quizId = 1 THEN "d1" ELSE NULL

QuizCorrectAnswer(q) == q % 2

NoQuizResult == [returned |-> FALSE, score |-> 0, totalQuestions |-> 0, questionResults |-> <<>>]

NoQuizCall ==
  [pc |-> "idle", n |-> 0, quizId |-> 0, answers |-> <<>>, questionResults |-> <<>>,
   score |-> 0, bktFailed |-> FALSE, ret |-> NoQuizResult]

\* answers.map(...): one graded result per answer
questionResults(answers) ==
  [i \in 1 .. Len(answers) |->
     [questionId |-> answers[i].questionId,
      selectedOptionIndex |-> answers[i].selectedOption,
      correctOptionIndex |-> QuizCorrectAnswer(answers[i].questionId),
      isCorrect |-> QuizCorrectAnswer(answers[i].questionId) = answers[i].selectedOption]]

\* questionResults.filter((r) => r.isCorrect).length
Score(results) == Cardinality({i \in 1 .. Len(results) : results[i].isCorrect})

\* submitQuizAttempt is called; it awaits fetchQuiz
submitQuizAttempt(quizId, answers) ==
  /\ quizCall.pc \in {"idle", "returned", "thrown"}
  /\ quizCall.n < MaxQuizSubmissions
  /\ quizCall' = [NoQuizCall EXCEPT !.pc = "fetchQuiz", !.n = quizCall.n + 1,
                                    !.quizId = quizId, !.answers = answers]
  /\ UNCHANGED <<bkt_batches, user_quiz_attempts, bkt_mastery, question_options, nextConcept, legacyVars, testVars, extraVars>>

\* fetchQuiz returns or throws; the answers are graded, and the batch is
\* posted when the quiz has a document
fetchQuizReturns(ok) ==
  /\ quizCall.pc = "fetchQuiz"
  /\ IF ~ok \/ \E i \in 1 .. Len(quizCall.answers) :
                  quizCall.answers[i].questionId \notin QuizQuestionIds
     THEN /\ quizCall' = [quizCall EXCEPT !.pc = "thrown"]
          /\ UNCHANGED bkt_batches
     ELSE LET results == questionResults(quizCall.answers)
              graded == [quizCall EXCEPT !.questionResults = results,
                                         !.score = Score(results)]
          IN IF QuizDocumentId(quizCall.quizId) = NULL
             THEN /\ quizCall' = [graded EXCEPT !.pc = "insert"]
                  /\ UNCHANGED bkt_batches
             ELSE /\ quizCall' = [graded EXCEPT !.pc = "postBktBatchUpdate"]
                  /\ bkt_batches' = Append(bkt_batches,
                       [submission |-> quizCall.n,
                        document_id |-> QuizDocumentId(quizCall.quizId),
                        updates |-> [i \in 1 .. Len(results) |->
                           [question_id |-> results[i].questionId,
                            claude_score |-> IF results[i].isCorrect THEN 100 ELSE 0]]])
  /\ UNCHANGED <<user_quiz_attempts, bkt_mastery, question_options, nextConcept, legacyVars, testVars, extraVars>>

\* mutant: a failed BKT request is rethrown
AfterBktRethrown(ok) == IF ok THEN "insert" ELSE "thrown"

\* the catch around postBktBatchUpdate logs and goes on
AfterBkt(ok) == "insert"

\* postBktBatchUpdate returns, or throws on a response that is not ok
postBktBatchUpdateReturns(ok) ==
  /\ quizCall.pc = "postBktBatchUpdate"
  /\ quizCall' = [quizCall EXCEPT !.pc = AfterBkt(ok), !.bktFailed = ~ok]
  /\ UNCHANGED <<bkt_batches, user_quiz_attempts, bkt_mastery, question_options, nextConcept, legacyVars, testVars, extraVars>>

\* the insert into user_quiz_attempts returns the row or an error
insertQuizAttempt(ok) ==
  /\ quizCall.pc = "insert"
  /\ IF ok
     THEN /\ user_quiz_attempts' = Append(user_quiz_attempts,
               [submission |-> quizCall.n, quiz_id |-> quizCall.quizId,
                score |-> quizCall.score, total_questions |-> Cardinality(QuizQuestionIds),
                answers |-> quizCall.answers])
          /\ quizCall' = [quizCall EXCEPT !.pc = "returned",
               !.ret = [returned |-> TRUE, score |-> quizCall.score,
                        totalQuestions |-> Cardinality(QuizQuestionIds),
                        questionResults |-> quizCall.questionResults]]
     ELSE /\ quizCall' = [quizCall EXCEPT !.pc = "thrown"]
          /\ UNCHANGED user_quiz_attempts
  /\ UNCHANGED <<bkt_batches, bkt_mastery, question_options, nextConcept, legacyVars, testVars, extraVars>>

\* ------------------------------------------------------------------------
\* shuffle_question_options and verify_question_options, row by row
\* (20260131000001_shuffle_existing_question_options.sql)
\* ------------------------------------------------------------------------
\* the sequences of all the rows, each once
Orders(rows) ==
  {o \in [1 .. Cardinality(rows) -> rows] : \A i, j \in DOMAIN o : i # j => o[i] # o[j]}

\* SELECT ... ORDER BY option_index: the orders the loop can visit the rows in
ByOptionIndex(rows) ==
  {o \in Orders(rows) : \A i, j \in DOMAIN o : i < j => o[i].option_index <= o[j].option_index}

\* ARRAY(SELECT i - 1 FROM generate_series(1, v_option_count) i ORDER BY random())
ShuffledIndices(v_option_count) ==
  {a \in [1 .. v_option_count -> 0 .. v_option_count - 1] :
     \A i, j \in DOMAIN a : i # j => a[i] # a[j]}

\* the loop's UPDATEs: the row visited at step k gets v_new_indices[k]
OptionsAfterLoop(order, v_new_indices) ==
  {[order[k] EXCEPT !.option_index = v_new_indices[k]] : k \in DOMAIN order}

\* mutant: the index the correct option had before its UPDATE
OldCorrectIndex(order, v_new_indices) ==
  LET hits == {k \in DOMAIN order : order[k].is_correct}
  IN IF hits = {} THEN NULL
     ELSE order[CHOOSE k \in hits : \A h \in hits : h <= k].option_index

\* v_new_correct_answer: set at every is_correct row, the last one stays;
\* NULL when the loop meets none
NewCorrectAnswer(order, v_new_indices) ==
  LET hits == {k \in DOMAIN order : order[k].is_correct}
  IN IF hits = {} THEN NULL
     ELSE v_new_indices[CHOOSE k \in hits : \A h \in hits : h <= k]

\* shuffle_question_options(p_question_id) on the rows of question q: the
\* function returns without a log row when it counts no option; an
\* exception (new_correct_answer is NOT NULL in the log) undoes the block
\* and logs the error
shuffleOptionRows(q, order, v_new_indices) ==
  LET v_new_correct_answer == NewCorrectAnswer(order, v_new_indices)
  IN /\ Len(shuffle_log) < MaxShuffles
     /\ question_options[q] # {}
     /\ order \in ByOptionIndex(question_options[q])
     /\ v_new_indices \in ShuffledIndices(Cardinality(question_options[q]))
     /\ IF ~\E k \in DOMAIN order : order[k].is_correct
        THEN /\ shuffle_log' = Append(shuffle_log,
                    [question_id |-> q, old_correct_answer |-> correct_answer[q],
                     new_correct_answer |-> 0 - 1, status |-> "error"])
             /\ UNCHANGED <<question_options, correct_answer>>
        ELSE /\ question_options' =
                    [question_options EXCEPT ![q] = OptionsAfterLoop(order, v_new_indices)]
             /\ correct_answer' = [correct_answer EXCEPT ![q] = v_new_correct_answer]
             /\ shuffle_log' = Append(shuffle_log,
                    [question_id |-> q, old_correct_answer |-> correct_answer[q],
                     new_correct_answer |-> v_new_correct_answer, status |-> "success"])
     /\ UNCHANGED <<legacyVars, testVars, review, engineVars, bkt_mastery, quizVars, nextConcept>>

\* verify_question_options(p_question_id).is_valid
verify_question_options(opts, q) ==
  LET v_correct_count == Cardinality({o \in opts[q] : o.is_correct})
      v_has_matching_option ==
        \E o \in opts[q] : o.option_index = correct_answer[q] /\ o.is_correct
  IN v_correct_count = 1 /\ v_has_matching_option

\* ------------------------------------------------------------------------
\* getNextConceptToStudy and the part of fetchDocumentProgress it reads
\* (unnamed/part_011)
\* ------------------------------------------------------------------------
NoConcept == "null"

NoNextConcept == [called |-> FALSE, fetched |-> FALSE, order |-> <<>>, value |-> NoConcept]

\* Math.round((correctCount / attemptCount) * 100), 0 without attempts
accuracyPercent(correctCount, attemptCount) ==
  IF attemptCount > 0 THEN (200 * correctCount + attemptCount) \div (2 * attemptCount)
  ELSE 0

\* the ConceptMastery of one concept: the columns getNextConceptToStudy reads
ConceptProgress(u, c) ==
  LET rows == MasteryRows(u, c)
      m == CHOOSE r \in rows : TRUE
  IN [conceptId |-> c,
      status |-> IF rows = {} THEN "not_started" ELSE m.status,
      accuracyPercent |-> IF rows = {} THEN 0
                          ELSE accuracyPercent(m.correct_count, m.attempt_count),
      questionCount |-> Cardinality(QuestionsOfConcept(c)),
      nextReviewAt |-> IF rows = {} THEN NoTime ELSE m.next_review_at]

\* progress.topics.flatMap((t) => t.concepts), in the order the query gave
allConcepts(u, order) == [i \in DOMAIN order |-> ConceptProgress(u, order[i])]

\* mutant: the concepts without the questionCount filter
unfilteredConcepts(cs) == cs

studyableConcepts(cs) == SelectSeq(cs, LAMBDA c : c.questionCount > 0)

\* inProgress.sort((a, b) => a.accuracyPercent - b.accuracyPercent)[0]: the
\* sort is stable
LowestAccuracy(cs) ==
  cs[CHOOSE i \in DOMAIN cs :
       /\ \A j \in DOMAIN cs : cs[i].accuracyPercent <= cs[j].accuracyPercent
       /\ \A j \in 1 .. i - 1 : cs[j].accuracyPercent > cs[i].accuracyPercent]

\* what getNextConceptToStudy returns from a fetched progress
NextConceptOf(u, order) ==
  LET studyable == studyableConcepts(allConcepts(u, order))
      inProgress == SelectSeq(studyable, LAMBDA c : c.status = "in_progress")
      notStarted == SelectSeq(studyable, LAMBDA c : c.status = "not_started")
      dueForReview == SelectSeq(studyable, LAMBDA c :
                        c.status = "mastered" /\ c.nextReviewAt # NoTime
                        /\ c.nextReviewAt <= now)
  IN IF Len(studyable) = 0 THEN NoConcept
     ELSE IF Len(inProgress) > 0 THEN LowestAccuracy(inProgress).conceptId
     ELSE IF Len(notStarted) > 0 THEN notStarted[1].conceptId
     ELSE IF Len(dueForReview) > 0 THEN dueForReview[1].conceptId
     ELSE NoConcept

\* getNextConceptToStudy(documentId, userId); null when the progress is not
\* fetched
getNextConceptToStudy(u, order, ok) ==
  /\ nextConcept' = [called |-> TRUE, fetched |-> ok, order |-> order,
                      value |-> IF ok THEN NextConceptOf(u, order) ELSE NoConcept]
  /\ nextConcept' # nextConcept
  /\ UNCHANGED <<legacyVars, testVars, extraVars, bkt_mastery, quizVars, question_options>>

InitTestIdle ==
  /\ tnow = 0
  /\ tsessions = [s \in SessionIds |-> NoTestSession]
  /\ tfixed = [s \in SessionIds |-> <<>>]
  /\ tattempts = <<>>
  /\ bkt = [q \in TestQuestionIds |-> [total_attempts |-> 0, total_correct |-> 0]]
  /\ net = {}
  /\ lastResp = [session |-> 0, question |-> 0, outcome |-> "none"]
  /\ cl = Unmounted(0)

InitLegacyIdle ==
  /\ now = 0
  /\ attempts = <<>>
  /\ mastery = {}
  /\ pc = [p \in Procs |-> "idle"]
  /\ call = [p \in Procs |-> NoCall]
  /\ pending = [p \in Procs |-> NoPending]
  /\ ret = [p \in Procs |-> NoRet]
  /\ calls = 0
  /\ finished = [k \in Keys |-> 0]
  /\ studySession = NoSession

InitMasteryIdle == bkt_mastery = [rows |-> {}, unique |-> FALSE]

InitQuizIdle ==
  /\ quizCall = NoQuizCall
  /\ bkt_batches = <<>>
  /\ user_quiz_attempts = <<>>

InitOptionsIdle == question_options = [q \in Questions |-> {}]

InitNextConceptIdle == nextConcept = NoNextConcept

InitDbIdle ==
  /\ InitMasteryIdle
  /\ InitQuizIdle
  /\ InitOptionsIdle
  /\ InitNextConceptIdle

InitShuffleIdle ==
  /\ correct_answer = [q \in Questions |-> BackupCorrectAnswer(q)]
  /\ review = NoReview
  /\ shuffle_log = <<>>

InitEngineIdle ==
  /\ eattempts = {}
  /\ feedback = NoAnswerFeedback
  /\ study = NoStudy

InitPassIdle ==
  /\ passResp = NoPassResp
  /\ passChance = NoPassChance

InitExtraIdle ==
  /\ InitDbIdle
  /\ InitShuffleIdle
  /\ InitEngineIdle
  /\ InitPassIdle
  /\ records = [k \in KCs |-> NoRecord]
  /\ passInput = [kcs |-> <<>>, target_grade |-> One]

InitLegacy == InitLegacyIdle /\ InitTestIdle /\ InitExtraIdle /\ autoComplete = FALSE

\* what a caller passes: a question of the session it runs, with the
\* question's concept, the option picked and whether it was the correct one
AttemptInput(q, sel) ==
  [questionId |-> q, conceptId |-> ConceptOf(q), selectedOption |-> sel,
   isCorrect |-> (q \in Questions /\ sel = CorrectAnswer(q))]

\* Concurrent callers of recordQuestionAttempt: two users on a question of
\* c1, one of them also on a question of c2, the other also with a question
\* id that does not exist; the option picked may be out of range.  The clock
\* stands still while the calls race.
RecordInputs == {<<"u1", 1>>, <<"u2", 1>>, <<"u1", BigPool + 1>>, <<"u2", UnknownQuestion>>}

NextRecord ==
  \/ \E p \in Procs, in \in RecordInputs, sel \in OptionRange \cup {BadOption} :
        calls < MaxRecordCalls /\ recordQuestionAttempt(p, in[1], AttemptInput(in[2], sel))
  \/ \E p \in Procs : recordSelectMastery(p)
  \/ \E p \in Procs : recordUpsertMastery(p)

SpecRecord == InitLegacy /\ [][NextRecord]_vars

\* Concurrent attempts of one learner on one question of c1
NextMastery ==
  \/ \E p \in Procs, sel \in OptionRange :
        recordQuestionAttempt(p, "u1", AttemptInput(1, sel))
  \/ \E p \in Procs : recordSelectMastery(p)
  \/ \E p \in Procs : recordUpsertMastery(p)

SpecMastery == InitLegacy /\ [][NextMastery]_vars

\* One learner studying: attempts on two questions of c1 and one of c2, the
\* clock, and study sessions started for any user and concept.
StudyQuestions == {1, 2, BigPool + 1}

NextStudy ==
  \/ \E q \in StudyQuestions :
        calls < MaxStudyCalls /\ recordQuestionAttempt(1, "u1", AttemptInput(q, 0))
  \/ recordSelectMastery(1)
  \/ recordUpsertMastery(1)
  \/ Tick
  \/ \E u \in Users, c \in Concepts, seed \in 0 .. RngSeeds - 1 :
        startStudySession(u, c, seed)

SpecStudy == InitLegacy /\ [][NextStudy]_vars

\* One learner answering and reviewing while the option shuffle migration
\* and its rollback are run.  The clock stands still.
MigratedQuestions == {1, BigPool + 1}

NextMigrate ==
  \/ \E q \in MigratedQuestions, sel \in OptionRange :
        calls < MaxStudyCalls /\ recordQuestionAttempt(1, "u1", AttemptInput(q, sel))
  \/ recordSelectMastery(1)
  \/ recordUpsertMastery(1)
  \/ \E c \in Concepts, ok \in BOOLEAN :
        ReviewsDone("u1", c) < MaxReviews /\ completeReview("u1", c, ok)
  \/ completeReviewUpdate
  \/ \E q \in MigratedQuestions, f \in OptionPermutations : shuffle_question_options(q, f)
  \/ rollbackShuffle

SpecMigrate == InitLegacy /\ [][NextMigrate]_vars

\* One learner answering one question of c1 and reviewing c1 again and again
NextReview ==
  \/ \E sel \in OptionRange :
        calls < MaxStudyCalls /\ recordQuestionAttempt(1, "u1", AttemptInput(1, sel))
  \/ recordSelectMastery(1)
  \/ recordUpsertMastery(1)
  \/ \E ok \in BOOLEAN :
        ReviewsDone("u1", "c1") < MaxReviewChain /\ completeReview("u1", "c1", ok)
  \/ completeReviewUpdate

SpecReview == InitLegacy /\ [][NextReview]_vars

\* ------------------------------------------------------------------------
\* Specification of the mastery engine with the StudySession component
\* ------------------------------------------------------------------------
\* rows whose per-KC parameters are not the column defaults: a row at the
\* threshold whose slip and guess make a correct answer evidence against
\* mastery, and a row whose slip and guess make answers uninformative
DegenerateRecord ==
  [created |-> TRUE, p_mastery |-> MASTERY_THRESHOLD, p_learn |-> DEFAULT_P_LEARN,
   p_slip |-> Frac(9, 10), p_guess |-> Frac(1, 2),
   total_attempts |-> 1, total_correct |-> 1]

FlatRecord ==
  [created |-> TRUE, p_mastery |-> DEFAULT_P_MASTERY, p_learn |-> Zero,
   p_slip |-> Frac(3, 4), p_guess |-> Frac(1, 4),
   total_attempts |-> 1, total_correct |-> 0]

SeedTables ==
  { [k \in KCs |-> NoRecord],
    [k \in KCs |-> IF k = 1 THEN DegenerateRecord
                   ELSE IF k = 2 THEN FlatRecord ELSE NoRecord] }

InitEngine ==
  /\ InitLegacyIdle /\ InitTestIdle /\ autoComplete = FALSE
  /\ InitShuffleIdle /\ InitEngineIdle /\ InitPassIdle /\ InitDbIdle
  /\ records \in SeedTables
  /\ passInput = [kcs |-> <<>>, target_grade |-> One]

\* the questions answered: those of the first PractisedKCs KCs, and one
\* the pool does not hold
AnswerInputs == UNION {QuestionPool(k) : k \in 1 .. PractisedKCs} \cup {0}

NextEngine ==
  \/ \E q \in AnswerInputs, selected \in 0 .. 1 : submit_answer(q, selected)
  \/ \E topic \in {NoTopic} \cup Topics, ok \in BOOLEAN : loadSession(topic, ok)

SpecEngine == InitEngine /\ [][NextEngine]_vars

\* ------------------------------------------------------------------------
\* Specification of the pass chance of a course
\* ------------------------------------------------------------------------
\* the attempted KCs: rows without slip and guess, whose p_eff is their
\* p_mastery, and the default row
PassProfiles ==
  {[DefaultRecord EXCEPT !.p_mastery = x, !.p_slip = Zero, !.p_guess = Zero,
                         !.total_attempts = 1] :
     x \in {Zero, Frac(3, 5), Frac(4, 5), One}}
  \cup {[DefaultRecord EXCEPT !.total_attempts = 1]}

TargetGrades == {Frac(0 - 1, 4), Zero, Frac(1, 2), Frac(2, 3), One, Frac(5, 4)}

PassInputs ==
  {[kcs |-> kcs, target_grade |-> t] :
     kcs \in UNION {[1 .. n -> PassProfiles] : n \in 0 .. MaxPassKCs},
     t \in TargetGrades}

InitPass ==
  /\ InitLegacyIdle /\ InitTestIdle /\ autoComplete = FALSE
  /\ InitShuffleIdle /\ InitEngineIdle /\ InitPassIdle /\ InitDbIdle
  /\ records = [k \in KCs |-> NoRecord]
  /\ passInput \in PassInputs

NextPass ==
  \/ fetchDashboardData
  \/ \E ok \in BOOLEAN : HandleCoursePassChance(ok)
  \/ fetchCoursePassChance

SpecPass == InitPass /\ [][NextPass]_vars

\* ------------------------------------------------------------------------
\* Properties of the legacy study service
\* ------------------------------------------------------------------------
\* a recordQuestionAttempt call for the key is between its awaits
InFlight(k) ==
  \E p \in Procs : pc[p] # "idle" /\ call[p].user = k[1] /\ call[p].conceptId = k[2]

AttemptCount(k) ==
  IF MasteryRows(k[1], k[2]) = {} THEN 0
  ELSE (CHOOSE r \in MasteryRows(k[1], k[2]) : TRUE).attempt_count

\* C1: whenever no submission for a (user, concept) key is in flight, the
\* key's attempt counter equals the number of submissions completed for it:
\* N submissions raise it by exactly N in every interleaving.
C1_NoLostUpdate ==
  \A k \in Keys : ~InFlight(k) => AttemptCount(k) = finished[k]

\* C2: there is at most one mastery row per key, exactly one once a first
\* answer for the key has completed, and no answer has its write rejected
\* because a concurrent first answer created the row before it.
C2_AtomicGetOrCreate ==
  /\ \A k \in Keys : Cardinality(MasteryRows(k[1], k[2])) <= 1
  /\ \A k \in Keys : finished[k] > 0 => Cardinality(MasteryRows(k[1], k[2])) = 1
  /\ \A p \in Procs : ret[p].write # "unique_violation"

\* C10: a session returned by startStudySession never holds more than
\* MAX_QUESTIONS_PER_SESSION questions.
C10_AtMostMaxQuestions ==
  Len(studySession.questions) <= MAX_QUESTIONS_PER_SESSION

\* a session was cut to the maximum: its concept has more questions than fit
C10_Witness ==
  /\ studySession.ok
  /\ Cardinality(QuestionsOfConcept(studySession.conceptId)) > MAX_QUESTIONS_PER_SESSION
  /\ Len(studySession.questions) = MAX_QUESTIONS_PER_SESSION

\* C11 as stated: any two distinct questions of a session belong to
\* different knowledge components (concepts)
C11_NoKcTwice ==
  \A i, j \in DOMAIN studySession.questions :
    i # j => studySession.questions[i].conceptId # studySession.questions[j].conceptId

\* C11 as amended: no question appears twice in a session, and every
\* question of the session belongs to the concept the session was started for
C11_NoQuestionTwice ==
  /\ \A i, j \in DOMAIN studySession.questions :
       i # j => studySession.questions[i].id # studySession.questions[j].id
  /\ \A i \in DOMAIN studySession.questions :
       studySession.questions[i].conceptId = studySession.conceptId

\* a session that holds recently seen questions next to unseen ones
C11_Witness ==
  /\ studySession.ok
  /\ Len(studySession.questions) >= 2
  /\ \E i \in DOMAIN studySession.questions, k \in DOMAIN attempts :
       attempts[k].question_id = studySession.questions[i].id

\* C13: in every state of the attempt log, a session started for any user
\* and concept holds a question attempted within the last 24 hours only if
\* it leaves out no question of the concept that was not
C13_UnseenPreferred ==
  \A u \in Users, c \in Concepts, seed \in 0 .. RngSeeds - 1 :
    LET qs == SelectQuestions(u, c, seed)
        ids == {qs[i] : i \in DOMAIN qs}
        recent == RecentQuestionIds(u, c)
    IN (ids \cap recent # {}) => (QuestionsOfConcept(c) \ recent) \subseteq ids

\* C15: a step changes the mastery rows of a (user, concept) key only when
\* it is the write of a submission for that very key: the rows of every
\* other key are left as they were
C15_OnlyOwnKey ==
  [][\A k \in Keys :
       MasteryRows(k[1], k[2])' # MasteryRows(k[1], k[2])
         => \E p \in Procs : /\ pc[p] = "upsert" /\ pc'[p] = "idle"
                              /\ call[p].user = k[1]
                              /\ call[p].conceptId = k[2]]_vars

\* a row was updated while the table holds the row of another key
C15_Witness ==
  /\ Cardinality(mastery) >= 2
  /\ \E r \in mastery : r.attempt_count >= 2

\* the call names a question that does not exist or an option out of range
Malformed(c) == c.questionId \notin Questions \/ c.selectedOption \notin OptionRange

\* C17: a submission that names an unknown question or an option out of
\* range writes nothing: no step of it changes the attempt log or a mastery
\* row
C17_RejectedBeforeWrite ==
  [][\A p \in Procs :
       /\ (pc[p] = "idle" /\ pc'[p] = "select" /\ Malformed(call'[p]))
            => attempts' = attempts
       /\ (pc[p] # "idle" /\ pc'[p] # pc[p] /\ Malformed(call[p]))
            => mastery' = mastery]_vars

\* C16: the attempt log only grows: every row of it is still there, as it
\* was written, after every step
C16_AppendOnly ==
  [][/\ Len(attempts') >= Len(attempts)
     /\ \A i \in DOMAIN attempts : attempts'[i] = attempts[i]]_vars

\* C26: every mastery record has 0 <= correct_count <= attempt_count, is
\* 'mastered' exactly when correct_count >= 3, and once mastered never
\* goes back to in_progress, concurrent attempts on its concept included.
C26_MasteryConsistent ==
  [][/\ \A r \in mastery' :
          /\ 0 <= r.correct_count /\ r.correct_count <= r.attempt_count
          /\ r.status = "mastered" <=> r.correct_count >= CORRECT_TO_MASTER
     /\ \A r \in mastery, r2 \in mastery' :
          (r2.id = r.id /\ r.status = "mastered") => r2.status = "mastered"]_vars

IntervalValues == {REVIEW_INTERVALS[i] : i \in DOMAIN REVIEW_INTERVALS}

\* the next larger value of the list, the value itself at the end of it
NextLarger(d) ==
  IF \E v \in IntervalValues : v > d
  THEN CHOOSE v \in IntervalValues : v > d /\ \A w \in IntervalValues : w > d => v <= w
  ELSE d

\* C24: review_interval_days is always one of 1, 3, 7, 14, 30, 60: a
\* successful review schedules the next larger value of the list for the
\* row it read (60 stays 60), an unsuccessful one schedules 1, and the
\* update writes the scheduled value to that row.
C24_IntervalsOnSchedule ==
  [][/\ \A r \in mastery' : r.review_interval_days \in IntervalValues
     /\ (review.pc = "idle" /\ review'.pc = "update") =>
          \E m \in mastery :
            /\ m.id = review'.id
            /\ review'.review_interval_days =
                 IF review'.wasSuccessful THEN NextLarger(m.review_interval_days)
                 ELSE REVIEW_INTERVALS[1]
     /\ (review.pc = "update" /\ review'.pc = "idle") =>
          \A r \in mastery' :
            r.id = review.id => r.review_interval_days = review.review_interval_days]_vars

C24_Witness ==
  \E r \in mastery :
    /\ r.review_interval_days = REVIEW_INTERVALS[Len(REVIEW_INTERVALS)]
    /\ r.review_count = MaxReviewChain

\* ------------------------------------------------------------------------
\* Claims about the mastery engine
\* ------------------------------------------------------------------------
\* a correct answer was just recorded for a KC that was mastered before it
CorrectOnMastered ==
  /\ feedback.status = "ok"
  /\ feedback.correct
  /\ Geq(feedback.pre, MASTERY_THRESHOLD)

\* the record's slip and guess make a correct answer evidence for mastery
Informative(r) == Geq(Sub(One, r.p_slip), r.p_guess)

Loaded == study'.run # study.run /\ ~study'.session.null

SessionKCs(session) == [i \in DOMAIN session.questions |-> session.questions[i].kc]

\* C12: session creation returns all_mastered = true only when every
\* in-scope KC has p_mastery >= 0.85, and then with an empty question list;
\* when the scope is non-empty and some in-scope KC is unmastered it
\* returns all_mastered = false.
C12_AllMasteredExact ==
  [][Loaded =>
       LET r == study'.session
           S == InScope(study'.topic)
       IN /\ r.all_mastered =>
               /\ \A k \in S : Geq(RecordOf(records, k).p_mastery, MASTERY_THRESHOLD)
               /\ r.questions = <<>>
          /\ (S # {} /\ \E k \in S :
                ~Geq(RecordOf(records, k).p_mastery, MASTERY_THRESHOLD))
               => ~r.all_mastered]_vars

C12_Witness ==
  /\ StudyView = "all_mastered"
  /\ study.sessionComplete
  /\ InScope(study.topic) # {}
  /\ \A k \in InScope(study.topic) : isMastered(RecordOf(records, k))
  /\ \E k \in KCs : ~isMastered(RecordOf(records, k))

C18_UndeterminedIffNoKc ==
  passChance.resolved => (passChance.null <=> Len(passInput.kcs) = 0)

\* the probability that c of the independent trials ps succeed with
\* c / K >= t, summed outcome by outcome
OutcomeProbability(ps, t) ==
  LET K == Len(ps)
      RECURSIVE Prod(_, _)
      Prod(S, i) == IF i > K THEN One
                    ELSE Mul(IF i \in S THEN ps[i] ELSE Sub(One, ps[i]), Prod(S, i + 1))
      passing == {S \in SUBSET (1 .. K) : Geq(Frac(Cardinality(S), K), t)}
      RECURSIVE Total(_)
      Total(Ss) == IF Ss = {} THEN Zero
                   ELSE LET S == CHOOSE X \in Ss : TRUE
                        IN Add(Prod(S, 1), Total(Ss \ {S}))
  IN Total(passing)

PEffs == [i \in DOMAIN passInput.kcs |-> PEff(passInput.kcs[i])]

Computed == passResp.pc \in {"responded", "done"} /\ passResp.ok

\* C20: for K >= 1 the pass probability is the probability that, among K
\* independent trials with success probabilities p_eff_i, the number of
\* successes c satisfies c / K >= target_grade (the target grade clamped to
\* [0,1]); p_eff = [0.8, 0.6] gives 0.48 at target 1.0 and 0.92 at 0.5.
C20_PoissonBinomial ==
  (Computed /\ Len(passInput.kcs) >= 1) =>
    /\ ~passResp.body.undetermined
    /\ passResp.body.pass_probability =
         OutcomeProbability(PEffs, Clamp(passInput.target_grade))
    /\ (PEffs = <<Frac(4, 5), Frac(3, 5)>> /\ passInput.target_grade = One)
         => passResp.body.pass_probability = Frac(12, 25)
    /\ (PEffs = <<Frac(4, 5), Frac(3, 5)>> /\ passInput.target_grade = Frac(1, 2))
         => passResp.body.pass_probability = Frac(23, 25)

C20_Witness ==
  /\ Computed
  /\ PEffs = <<Frac(4, 5), Frac(3, 5)>>
  /\ passInput.target_grade = Frac(1, 2)
  /\ passResp.body.pass_probability = Frac(23, 25)
  /\ passChance = [resolved |-> TRUE, null |-> FALSE, value |-> Frac(23, 25)]

\* ------------------------------------------------------------------------
\* Specification of the TestPage against the test API
\* ------------------------------------------------------------------------
InitTest == InitLegacyIdle /\ InitTestIdle /\ InitExtraIdle /\ autoComplete \in BOOLEAN

NextTest ==
  \/ OpenTest
  \/ \E s \in SessionIds : OpenResume(s)
  \/ Reload
  \/ handleExit
  \/ RetryQuery
  \/ \E o \in OptionIndexes : handleSelectOption(o)
  \/ handleNext
  \/ handleRetake
  \/ \E r \in net : ReceiveQuery(r)
  \/ \E r \in net : ReceivePassChance(r)
  \/ \E m \in net, ok \in BOOLEAN : HandleAnswer(m, ok)
  \/ \E m \in net, ok \in BOOLEAN : HandleComplete(m, ok)
  \/ \E m \in net, qs \in TestLists, ok \in BOOLEAN : HandleCreate(m, qs, ok)
  \/ \E m \in net, ok \in BOOLEAN : HandleResume(m, ok)
  \/ \E m \in net, ok \in BOOLEAN : HandlePassChance(m, ok)
  \/ TickTest

SpecTest == InitTest /\ [][NextTest]_vars

\* ------------------------------------------------------------------------
\* Properties of the TestPage and the test API
\* ------------------------------------------------------------------------
\* the server has recorded an answer of session s to question q
Recorded(s, q) ==
  \E i \in 1 .. Len(tattempts) : tattempts[i].session = s /\ tattempts[i].question = q

\* the answer request m is handled in this step
Handled(m) == m \in net /\ m \notin net'

\* C3: the page shows the feedback of a submitted answer as its outcome only
\* once the server has committed the answer: the attempt with its mastery
\* update and the counters of the session
C3_FeedbackAfterCommit ==
  (ActiveView /\ cl.feedback.shown /\ HasCurrentQuestion)
    => Recorded(cl.testData.test_id, currentQuestion.id)

\* C4: an answer handled while its session is completed is answered
\* "session_closed" and leaves the session, its counters included, as it was
C4_ClosedSessionRejects ==
  [][\A m \in net :
       (m.type = "answer" /\ Handled(m) /\ tsessions[m.session].status = "completed")
         => /\ lastResp'.outcome = "session_closed"
            /\ tsessions'[m.session] = tsessions[m.session]
            /\ tattempts' = tattempts]_vars

\* an answer reached a session that a complete request had closed before it
C4_Witness ==
  /\ ~autoComplete
  /\ lastResp.outcome = "session_closed"
  /\ tsessions[lastResp.session].status = "completed"
  /\ tsessions[lastResp.session].answered_count < Len(tsessions[lastResp.session].question_ids)

\* the question ids of a payload, in order
PayloadIds(qs) == [i \in 1 .. Len(qs) |-> qs[i].id]

\* the responses a step adds
NewResponses == {r \in net' : r \notin net /\ r.type = "testData"}

\* C5: resuming an in_progress session returns the list fixed at creation
\* and the counters recorded so far, and a reload of the page that shows an
\* in_progress session asks for that session again, never for a new test
C5_ResumeSameTest ==
  [][/\ \A m \in net :
          (m.type = "resume" /\ Handled(m) /\ tsessions[m.session].status = "in_progress")
            => \A r \in NewResponses :
                 r.ok => /\ PayloadIds(r.data.questions) = tfixed[m.session]
                         /\ r.data.answered_count = tsessions[m.session].answered_count
                         /\ r.data.correct_count = tsessions[m.session].correct_count
     /\ (/\ cl.page = "test" /\ cl.query = "loaded" /\ cl.testData.test_id # 0
         /\ tsessions[cl.testData.test_id].status = "in_progress"
         /\ cl'.page = "test" /\ cl'.epoch # cl.epoch)
          => [type |-> "resume", session |-> cl.testData.test_id, epoch |-> cl'.epoch]
               \in net']_vars

\* C6: a completed session never changes again: not its status, its
\* counters, its pass-chance snapshot or completed_at, whatever request is
\* handled, a repeated complete included; an in_progress session stays
\* in_progress or becomes completed
C6_CompletedIsTerminal ==
  [][\A s \in SessionIds :
       /\ tsessions[s].status = "completed" => tsessions'[s] = tsessions[s]
       /\ tsessions[s].status = "in_progress"
            => tsessions'[s].status \in {"in_progress", "completed"}]_vars

\* complete was called on a session completed at an earlier time
C6_Witness ==
  /\ lastResp.outcome = "already_completed"
  /\ tsessions[lastResp.session].status = "completed"
  /\ tsessions[lastResp.session].completed_at < tnow

\* C7: a resume request for a session that is missing or completed is
\* answered with an error that carries no question list, and the page that
\* receives the error shows no question, so it submits no answer
C7_NotResumable ==
  [][/\ \A m \in net :
          (m.type = "resume" /\ Handled(m) /\ tsessions[m.session].status # "in_progress")
            => \A r \in NewResponses : ~r.ok /\ r.data.questions = <<>>
     /\ \A r \in net :
          (r.type = "testData" /\ ~r.ok /\ r \notin net'
           /\ cl'.page = "test" /\ cl'.epoch = cl.epoch)
            => cl'.query = "error" /\ cl'.testData.questions = <<>>]_vars

\* the page asked to resume a completed session and shows the error view
C7_Witness ==
  /\ cl.page = "test"
  /\ cl.url # 0
  /\ cl.query = "error"
  /\ tsessions[cl.url].status = "completed"
  /\ ~ActiveView

\* C8: no question handed to the page says which option is correct or
\* carries an explanation
C8_PayloadHidesAnswers ==
  \A i \in DOMAIN cl.testData.questions :
    \A j \in DOMAIN cl.testData.questions[i].options :
      /\ "is_correct" \notin DOMAIN cl.testData.questions[i].options[j]
      /\ "explanation" \notin DOMAIN cl.testData.questions[i].options[j]

\* the counters of every session are ordered and bounded by its list
CountersInRange ==
  \A s \in SessionIds :
    /\ 0 <= tsessions[s].correct_count
    /\ tsessions[s].correct_count <= tsessions[s].answered_count
    /\ tsessions[s].answered_count <= Len(tsessions[s].question_ids)

C28_CurrentQuestionExists == ActiveView => HasCurrentQuestion

\* C27: every answer the user selects is recorded before the session
\* becomes completed: when a session is completed no answer submission for
\* it is still in flight.
C27_AnswersBeforeCompletion ==
  [][\A s \in SessionIds :
       (tsessions[s].status = "in_progress" /\ tsessions'[s].status = "completed")
         => ~\E m \in net' : m.type = "answer" /\ m.session = s]_vars

\* C29: once all requests have settled, the correct and answered counts the
\* page shows equal the correct_count and answered_count the server
\* recorded for the session.
C29_CountsAgree ==
  (net = {} /\ cl.page = "test" /\ cl.query = "loaded" /\ cl.testData.test_id # 0)
    => /\ cl.answeredCount = tsessions[cl.testData.test_id].answered_count
       /\ cl.correctCount = tsessions[cl.testData.test_id].correct_count

\* ------------------------------------------------------------------------
\* Specification of the clicks on the options of TestPage and StudySession
\* ------------------------------------------------------------------------
\* the topics whose sessions hold one and two questions
ClickTopics == {1, 2}

NextClicks ==
  \/ OpenTest
  \/ Reload
  \/ \E o \in OptionIndexes : handleSelectOption(o)
  \/ handleNext
  \/ \E r \in net : ReceiveQuery(r)
  \/ \E m \in net, qs \in TestLists, ok \in BOOLEAN : HandleCreate(m, qs, ok)
  \/ \E m \in net, ok \in BOOLEAN : HandleAnswer(m, ok)
  \/ \E topic \in ClickTopics, ok \in BOOLEAN : loadSession(topic, ok)
  \/ StudySelectOption
  \/ StudySubmitReturns
  \/ StudyNext
  \/ \E ok \in BOOLEAN : handleRestart(ok)

SpecClicks == InitLegacy /\ [][NextClicks]_vars

\* the answer requests in flight
AnswersInFlight(msgs) == {m \in msgs : m.type = "answer"}

\* the question TestPage shows: the mount and the index
Shown(c) == <<c.page, c.epoch, c.currentIndex>>

RowIds == 1 .. MaxMasteryRows

\* the rows the table can hold under an id (ids are random uuids: their
\* order says nothing about the other columns)
BktMasteryRows(id) ==
  {[id |-> id, user_id |-> "u1", course_id |-> c, knowledge_component_id |-> k,
    p_mastery |-> p, n_attempts |-> n] :
     c \in {"c1", NULL}, k \in {"k1", "k2"}, p \in {Frac(3, 10), Frac(9, 10)}, n \in {1, 5}}

NoRow == [id |-> 0]

BktMasteryTables ==
  {{f[id] : id \in RowIds} \ {NoRow} :
     f \in {g \in [RowIds -> UNION {BktMasteryRows(id) \cup {NoRow} : id \in RowIds}] :
              \A id \in RowIds : g[id] = NoRow \/ g[id].id = id}}

InitDedup ==
  /\ InitLegacyIdle /\ InitTestIdle /\ autoComplete = FALSE
  /\ InitShuffleIdle /\ InitEngineIdle /\ InitPassIdle
  /\ records = [k \in KCs |-> NoRecord]
  /\ passInput = [kcs |-> <<>>, target_grade |-> One]
  /\ InitQuizIdle /\ InitOptionsIdle /\ InitNextConceptIdle
  /\ bkt_mastery \in [rows : BktMasteryTables, unique : {FALSE}]

NextDedup == add_course_unique_constraint

SpecDedup == InitDedup /\ [][NextDedup]_vars

\* the rows of the table that share the key of row a
Duplicates(rows, a) == {b \in rows : SameKey(a, b)}

\* C23: the deduplication leaves one row for every key that had duplicates,
\* and that row is the one with the highest p_mastery and the most attempts
\* of the key's rows.
C23_KeepsBest ==
  [][\A a \in bkt_mastery.rows :
       Cardinality(Duplicates(bkt_mastery.rows, a)) > 1 =>
         /\ Cardinality(Duplicates(bkt_mastery'.rows, a)) = 1
         /\ \A kept \in Duplicates(bkt_mastery'.rows, a) :
              \A b \in Duplicates(bkt_mastery.rows, a) :
                /\ Geq(kept.p_mastery, b.p_mastery)
                /\ kept.n_attempts >= b.n_attempts]_vars

\* ------------------------------------------------------------------------
\* Specification of submitQuizAttempt
\* ------------------------------------------------------------------------
\* what the form passes: answers to the quiz's questions, to one question
\* twice, or to a question the quiz does not hold
QuizAnswer == [questionId : QuizQuestionIds \cup {3}, selectedOption : 0 .. 1]

QuizAnswers == UNION {[1 .. n -> QuizAnswer] : n \in 0 .. MaxQuizAnswers}

InitQuiz ==
  /\ InitLegacyIdle /\ InitTestIdle /\ autoComplete = FALSE
  /\ InitShuffleIdle /\ InitEngineIdle /\ InitPassIdle
  /\ records = [k \in KCs |-> NoRecord]
  /\ passInput = [kcs |-> <<>>, target_grade |-> One]
  /\ InitDbIdle

NextQuiz ==
  \/ \E quizId \in QuizIds, answers \in QuizAnswers : submitQuizAttempt(quizId, answers)
  \/ \E ok \in BOOLEAN : fetchQuizReturns(ok)
  \/ \E ok \in BOOLEAN : postBktBatchUpdateReturns(ok)
  \/ \E ok \in BOOLEAN : insertQuizAttempt(ok)

SpecQuiz == InitQuiz /\ [][NextQuiz]_vars

\* the batches submission n has posted
BatchesOf(n) == {i \in 1 .. Len(bkt_batches) : bkt_batches[i].submission = n}

\* the rows submission n has saved
SavedBy(n) == {i \in 1 .. Len(user_quiz_attempts) : user_quiz_attempts[i].submission = n}

\* C21: a submission posts the BKT batch at most once, and a failed BKT
\* request is not fatal: the call goes on to the insert, and once the insert
\* has succeeded the attempt is saved and the graded result is returned.
C21_BktOnceNonFatal ==
  /\ [](\A n \in 1 .. MaxQuizSubmissions : Cardinality(BatchesOf(n)) <= 1)
  /\ [][(quizCall.pc = "postBktBatchUpdate" /\ quizCall'.pc # quizCall.pc)
          => quizCall'.pc = "insert"]_vars
  /\ [][(quizCall.pc = "insert" /\ quizCall.bktFailed /\ quizCall'.pc = "thrown")
          => user_quiz_attempts' = user_quiz_attempts]_vars
  /\ []((quizCall.bktFailed /\ quizCall.pc \in {"returned", "thrown"}) =>
          IF SavedBy(quizCall.n) # {}
          THEN /\ quizCall.pc = "returned"
               /\ quizCall.ret.returned
               /\ quizCall.ret.score = Score(questionResults(quizCall.answers))
               /\ quizCall.ret.questionResults = questionResults(quizCall.answers)
               /\ \A i \in SavedBy(quizCall.n) :
                    user_quiz_attempts[i].score = quizCall.ret.score
          ELSE quizCall.pc = "thrown")

\* the BKT request of a submission with one right and one wrong answer has
\* failed, the attempt is saved and the result returned
C21_Witness ==
  /\ quizCall.pc = "returned"
  /\ quizCall.bktFailed
  /\ Cardinality(BatchesOf(quizCall.n)) = 1
  /\ Cardinality(SavedBy(quizCall.n)) = 1
  /\ quizCall.ret.score = 1
  /\ Len(quizCall.answers) = 2

\* ------------------------------------------------------------------------
\* Specification of the option shuffle, row by row
\* ------------------------------------------------------------------------
ShuffledQuestions == {1, 2}

\* the rows of a question as quiz generation stored them: option_index 0..n-1
\* in the order of the ids, any of them marked correct
OptionTables ==
  UNION {{{[id |-> i, option_index |-> i - 1, is_correct |-> (i \in correct)] : i \in 1 .. n} :
            correct \in SUBSET (1 .. n)} : n \in 0 .. MaxOptions}

InitShuffle ==
  /\ InitLegacyIdle /\ InitTestIdle /\ autoComplete = FALSE
  /\ InitShuffleIdle /\ InitEngineIdle /\ InitPassIdle
  /\ records = [k \in KCs |-> NoRecord]
  /\ passInput = [kcs |-> <<>>, target_grade |-> One]
  /\ InitMasteryIdle /\ InitQuizIdle /\ InitNextConceptIdle
  /\ \E t \in [ShuffledQuestions -> OptionTables] :
       question_options = [q \in Questions |-> IF q \in ShuffledQuestions THEN t[q] ELSE {}]

NextShuffle ==
  \E q \in ShuffledQuestions :
    \E order \in ByOptionIndex(question_options[q]),
       v_new_indices \in ShuffledIndices(Cardinality(question_options[q])) :
      shuffleOptionRows(q, order, v_new_indices)

SpecShuffle == InitShuffle /\ [][NextShuffle]_vars

\* shuffle_question_options has just succeeded on question q
ShuffleSucceeded(q) ==
  /\ Len(shuffle_log') = Len(shuffle_log) + 1
  /\ shuffle_log'[Len(shuffle_log')].question_id = q
  /\ shuffle_log'[Len(shuffle_log')].status = "success"

CorrectOptions(opts) == {o \in opts : o.is_correct}

\* C22: after shuffle_question_options succeeds on a question with n >= 1
\* options, exactly one of them correct, the options carry each index
\* 0..n-1 exactly once, exactly one is still correct, correct_answer is its
\* index, and verify_question_options finds the question valid.
C22_ShuffleKeepsOptionsValid ==
  [][\A q \in ShuffledQuestions :
       (/\ ShuffleSucceeded(q)
        /\ Cardinality(question_options[q]) >= 1
        /\ Cardinality(CorrectOptions(question_options[q])) = 1)
       => LET n == Cardinality(question_options[q])
              after == question_options'[q]
          IN /\ Cardinality(after) = n
             /\ \A i \in 0 .. n - 1 :
                  Cardinality({o \in after : o.option_index = i}) = 1
             /\ Cardinality(CorrectOptions(after)) = 1
             /\ {o.id : o \in CorrectOptions(after)} =
                  {o.id : o \in CorrectOptions(question_options[q])}
             /\ \A o \in CorrectOptions(after) : correct_answer'[q] = o.option_index
             /\ verify_question_options(question_options, q)']_vars

\* the second shuffle of a three-option question has moved its one correct
\* option, first stored at index 0, to index 2
C22_Witness ==
  /\ Len(shuffle_log) = 2
  /\ shuffle_log[1].question_id = 1 /\ shuffle_log[2].question_id = 1
  /\ shuffle_log[1].status = "success" /\ shuffle_log[2].status = "success"
  /\ shuffle_log[1].new_correct_answer = 1
  /\ Cardinality(question_options[1]) = 3
  /\ CorrectOptions(question_options[1]) = {[id |-> 1, option_index |-> 2, is_correct |-> TRUE]}
  /\ correct_answer[1] = 2

\* ------------------------------------------------------------------------
\* Specification of getNextConceptToStudy
\* ------------------------------------------------------------------------
\* the rows of user_concept_mastery a concept can have: in progress with an
\* accuracy of 0, 50 or 67 percent, mastered with the review set, or (a row
\* a stale write has left) mastered without one
ProgressProfiles ==
  {[status |-> "in_progress", correct_count |-> k[1], attempt_count |-> k[2],
    next_review_at |-> NoTime] : k \in {<<0, 1>>, <<1, 2>>, <<2, 3>>}}
  \cup {[status |-> "mastered", correct_count |-> CORRECT_TO_MASTER,
          attempt_count |-> CORRECT_TO_MASTER, next_review_at |-> t] :
           t \in {NoTime, DAY_HOURS, 2 * DAY_HOURS}}

NoProgress == [status |-> "not_started"]

ProgressRow(c, prof) ==
  [id |-> c, user_id |-> "u1", concept_id |-> c, status |-> prof.status,
   correct_count |-> prof.correct_count, attempt_count |-> prof.attempt_count,
   current_streak |-> 0, mastered_at |-> NoTime, next_review_at |-> prof.next_review_at,
   review_interval_days |-> DEFAULT_REVIEW_INTERVAL, review_count |-> 0]

ProgressTables ==
  {{ProgressRow(c, f[c]) : c \in {x \in Concepts : f[x] # NoProgress}} :
     f \in [Concepts -> ProgressProfiles \cup {NoProgress}]}

ConceptOrders ==
  {o \in [1 .. Cardinality(Concepts) -> Concepts] : \A i, j \in DOMAIN o : i # j => o[i] # o[j]}

InitNextConcept ==
  /\ InitTestIdle /\ InitExtraIdle /\ autoComplete = FALSE
  /\ now = 0
  /\ attempts = <<>>
  /\ mastery \in ProgressTables
  /\ pc = [p \in Procs |-> "idle"]
  /\ call = [p \in Procs |-> NoCall]
  /\ pending = [p \in Procs |-> NoPending]
  /\ ret = [p \in Procs |-> NoRet]
  /\ calls = 0
  /\ finished = [k \in Keys |-> 0]
  /\ studySession = NoSession

NextNextConcept ==
  \/ Tick
  \/ \E order \in ConceptOrders, ok \in BOOLEAN : getNextConceptToStudy("u1", order, ok)

SpecNextConcept == InitNextConcept /\ [][NextNextConcept]_vars

\* the concepts of the given status that have a question, by the user's rows
WithStatus(st) ==
  {c \in Concepts :
     /\ QuestionsOfConcept(c) # {}
     /\ IF st = "not_started" THEN ~\E r \in mastery : r.user_id = "u1" /\ r.concept_id = c
        ELSE \E r \in mastery : r.user_id = "u1" /\ r.concept_id = c /\ r.status = st}

RowOf(c) == CHOOSE r \in mastery : r.user_id = "u1" /\ r.concept_id = c

\* by the accuracy the progress shows, in whole percent
AtMostAsAccurate(a, b) ==
  accuracyPercent(RowOf(a).correct_count, RowOf(a).attempt_count)
    <= accuracyPercent(RowOf(b).correct_count, RowOf(b).attempt_count)

DueNow == {c \in WithStatus("mastered") :
             RowOf(c).next_review_at # NoTime /\ RowOf(c).next_review_at <= now}

\* the first concept of the set in the order of the call
FirstOf(order, set) ==
  order[CHOOSE i \in DOMAIN order :
          order[i] \in set /\ \A j \in 1 .. i - 1 : order[j] \notin set]

\* C25: getNextConceptToStudy returns only a concept with a question; an
\* in-progress concept of the lowest accuracy if there is one, otherwise the
\* first not-started concept, otherwise the first mastered concept whose
\* review is due, otherwise null.
C25_NextConceptByPriority ==
  [][(nextConcept' # nextConcept /\ nextConcept'.fetched) =>
       LET v == nextConcept'.value
           order == nextConcept'.order
       IN /\ v # NoConcept => QuestionsOfConcept(v) # {}
          /\ IF WithStatus("in_progress") # {}
             THEN /\ v \in WithStatus("in_progress")
                  /\ \A c \in WithStatus("in_progress") : AtMostAsAccurate(v, c)
             ELSE IF WithStatus("not_started") # {}
             THEN v = FirstOf(order, WithStatus("not_started"))
             ELSE IF DueNow # {}
             THEN v = FirstOf(order, DueNow)
             ELSE v = NoConcept]_vars

\* the last case of the priority: the concept without questions is in
\* progress and comes first, both concepts with questions are mastered, and
\* the one whose review is due is returned
C25_Witness ==
  /\ nextConcept.called /\ nextConcept.fetched
  /\ nextConcept.value = "c2"
  /\ nextConcept.order = <<"c3", "c1", "c2">>
  /\ WithStatus("in_progress") = {} /\ WithStatus("not_started") = {}
  /\ DueNow = {"c2"}
  /\ \E r \in mastery : r.concept_id = "c3" /\ r.status = "in_progress"

====
